---- MODULE Spec2Model ----
(***************************************************************************)
(* Orthrus redundancy runtime: application threads record each closure in  *)
(* a log frame inside a slab, hand the frame to the paired validator over  *)
(* an SPSC ring, and the validator re-executes, compares and reclaims.     *)
(* Sources: src/include/log.hpp, src/include/queue.hpp,                    *)
(* src/include/scee.hpp, src/include/thread.hpp, src/scee.cpp.             *)
(*                                                                         *)
(* Memory is sequentially consistent and every access to state shared      *)
(* between an application thread and a validator is a step of its own.     *)
(***************************************************************************)
EXTENDS Integers, Sequences, FiniteSets, TLC

(***************************************************************************)
(* Bounds of the model.                                                    *)
(***************************************************************************)
\* run2 calls one application thread makes before its function returns
MaxCalls == 3
\* run2 calls per thread in the specification with two threads
MaxCallsGate == 1
\* LOG_QUEUE_CAPACITY is 2^LogQueueShift (the source has 2048 = 2^11)
LogQueueShift == 1
\* MAX_LOG_BUFFER_SIZE is MIN_LOG_BUFFER_SIZE * 2^LogBufferShift (source: 16 = 2^4)
LogBufferShift == 1
\* hashmap calls the group threads of the sei variant begin in all
\* fd_reader's buffer and longest command, in bytes (1 << 14 and 1 << 10
\* in comm.hpp, scaled to the requests of RdLines)
kBufferSize == 8
kMaxCmdLen == 4
\* requests in one connection's stream
MaxStream == 3
\* write_all calls of one thread
MaxWrites == 2
MaxOpsC == 3
\* run2 calls of the thread whose frames a memory fault may hit
MaxCallsFault == 2
\* run2 calls of each thread where progress is checked
MaxCallsLive == 1
\* run2 calls of the thread whose frames are placed at the slab's edges
MaxCallsSlab == 3
\* run2 calls of each of the two threads that share the slab arena
MaxCallsArena == 2
\* request lines the clients of an RBV primary send in all
MaxRbvReqs == 3
\* request lines the clients of a server group send in all
MaxRequests == 2
\* operations applied to the key/value engine
MaxOps == 4
\* buckets of the hash table (the source makes 1 << 24)
HashCapacity == 2

(***************************************************************************)
(* Program constants.                                                      *)
(***************************************************************************)
MIN_LOG_BUFFER_SIZE == 32768
MAX_LOG_BUFFER_SIZE == MIN_LOG_BUFFER_SIZE * (2 ^ LogBufferShift)
LOG_QUEUE_CAPACITY == 2 ^ LogQueueShift
MAGIC == 57005
SizeofLogBufferHead == 128
SizeofLogHead == 32
SizeofLogTail == 8
\* sizeof(Closure<Ret, Args...>) without the argument tuple: vptr and fn
SizeofClosureBase == 16
\* sizeof(Ret) of the recorded return value
SizeofRet == 8

Threads == {1, 2}
NULL == 0
\* the argument values and the sizes of the argument tuple of a call
ArgValues == {0, 1}
ArgSizes == {8, MIN_LOG_BUFFER_SIZE - 64}
\* (app_fn, val_fn) pairs handed to run2
FnPairs == {<<"fn", "fn">>, <<"fn_perturbed", "fn">>}
\* values of rand() % 100
RandValues == {0, 99}
SamplingRates == {50, 100}

\* the key/value engines: orthrus/closure.cpp and sei/hashmap.cpp
Engines == {"orthrus", "sei"}
KEY_LEN == 4
VAL_LEN == 8
\* keys and values of the requests; abcd and abcf hash two apart
Keys == {<<"a", "b", "c", "d">>, <<"a", "b", "c", "e">>, <<"a", "b", "c", "f">>}
Vals == {<<"0", "0", "0", "0", "0", "0", "0", "0">>,
         <<"1", "2", "3", "4", "5", "6", "7", "8">>}
\* the character codes of the bytes that occur in requests
Ascii ==
    [c \in {"\n", "\r", " ", "#", "0", "1", "2", "3", "4", "5", "6", "7", "8",
            "9", "?", "a", "b", "c", "d", "e", "f", "g", "i", "l", "o", "q",
            "s", "t", "u"} |->
        CASE c = "\n" -> 10 [] c = "\r" -> 13 [] c = " " -> 32 [] c = "#" -> 35
          [] c = "0" -> 48 [] c = "1" -> 49 [] c = "2" -> 50 [] c = "3" -> 51
          [] c = "4" -> 52 [] c = "5" -> 53 [] c = "6" -> 54 [] c = "7" -> 55
          [] c = "8" -> 56 [] c = "9" -> 57 [] c = "?" -> 63
          [] c = "a" -> 97 [] c = "b" -> 98 [] c = "c" -> 99 [] c = "d" -> 100
          [] c = "e" -> 101 [] c = "f" -> 102 [] c = "g" -> 103
          [] c = "i" -> 105 [] c = "l" -> 108 [] c = "o" -> 111
          [] c = "q" -> 113 [] c = "s" -> 115 [] c = "t" -> 116
          [] c = "u" -> 117]

\* request lines the clients send (comm.hpp frames them at the newline)
LineSet1 ==
    <<"s", "e", "t", " ", "a", "b", "c", "d", " ", "1", "2", "3",
      "4", "5", "6", "7", "8", "\r", "\n">>
\* a set whose value bytes hold an LF
ValLf == <<"1", "2", "3", "4", "\n", "6", "7", "8">>
LineSetLf == <<"s", "e", "t", " ", "a", "b", "c", "d", " ">> \o ValLf \o <<"\r", "\n">>
LineGet ==
    <<"g", "e", "t", " ", "a", "b", "c", "d", "\r", "\n">>
LineDel ==
    <<"d", "e", "l", " ", "a", "b", "c", "d", "\r", "\n">>
LineFoo ==
    <<"f", "o", "o", " ", "a", "b", "c", "d", " ", "0", "0", "0",
      "0", "0", "0", "0", "0", "\r", "\n">>
LineQuit ==
    <<"q", "u", "i", "t", "\r", "\n">>
\* the same with a <decimal-u32># prefix
LineCrcSet ==
    <<"1", "2", "3", "4", "5", "6", "7", "8", "9", "#", "s", "e",
      "t", " ", "a", "b", "c", "d", " ", "1", "2", "3", "4", "5",
      "6", "7", "8", "\r", "\n">>
LineCrcMaxGet ==
    <<"4", "2", "9", "4", "9", "6", "7", "2", "9", "5", "#", "g",
      "e", "t", " ", "a", "b", "c", "d", "\r", "\n">>
LineCrcQuit ==
    <<"0", "#", "q", "u", "i", "t", "\r", "\n">>
\* a prefix one above UINT32_MAX
LineCrcOver ==
    <<"4", "2", "9", "4", "9", "6", "7", "2", "9", "6", "#", "g",
      "e", "t", " ", "a", "b", "c", "d", "\r", "\n">>
ReqLines == {LineSet1, LineGet, LineDel, LineFoo, LineQuit,
             LineCrcSet, LineCrcMaxGet, LineCrcQuit, LineCrcOver}
\* what the second connection sends
FewLines == {LineGet}
\* kRetVals of common.hpp
kRetVals ==
    [kError |-> <<"E", "R", "R", "O", "R", "\r", "\n">>,
     kDeleted |-> <<"D", "E", "L", "E", "T", "E", "D", "\r", "\n">>,
     kNotFound |-> <<"N", "O", "T", "_", "F", "O", "U", "N", "D", "\r", "\n">>,
     kStored |-> <<"S", "T", "O", "R", "E", "D", "\r", "\n">>,
     kCreated |-> <<"C", "R", "E", "A", "T", "E", "D", "\r", "\n">>,
     kValue |-> <<"V", "A", "L", "U", "E", " ">>]
kCrlf == <<"\r", "\n">>
Digits == {"0", "1", "2", "3", "4", "5", "6", "7", "8", "9"}
\* connections of one server group, and the listening socket
Conns == {1, 2}
\* the requests a connection's byte stream is made of
RdLines == {<<"a", "\n">>, <<"b", "c", "d", "\n">>}
Streams == UNION {[1..n -> RdLines] : n \in 1..MaxStream}
RECURSIVE Flatten(_)
Flatten(ls) == IF ls = <<>> THEN <<>> ELSE Head(ls) \o Flatten(Tail(ls))
MinOf(a, b) == IF a < b THEN a ELSE b
LISTEN == 0

VARIABLES
    client,              \* each client's end: "idle", "connected", "closed"
    fd_open,             \* accepted descriptors the server has not closed
    workers,             \* keys of Start's map workers
    sock,                \* bytes sent on a connection and not yet read
    rd,                  \* fd_reader: the rx_bytes bytes at cur_pos
    wire_out,            \* responses written on each connection
    ready,               \* events epoll_wait has yet to return
    srv_pc,              \* where Start is: epoll_wait or a worker's run()
    errno,               \* errno of the server thread
    sent,                \* lines each client has sent
    dispatched,          \* packets run() dispatched on its verb, per connection
    backlog,             \* connections made and not yet accepted
    req_lines,           \* the request lines the first client chooses from
    srv_last,            \* the last packet run() took, the number of packets
                         \* taken so far, and what became of it
    engine,              \* which hashmap_t serves the requests
    table,               \* hashmap_t::buckets: a chain of entries per bucket
    halted,              \* how the server process ended, "" while it runs
    kv_ops,              \* operations applied to the engine so far
    kv_last,             \* the last operation applied and what it returned
    kv_ref,              \* for every key, the value a reader should find
    ctable,              \* sei hashmap_t shared by the group threads: for every
                         \* bucket its chain of entries (key, val_ptr)
    cells,               \* the Val objects on the heap, by address
    locks,               \* owner of every bucket's mutex, 0 when unlocked
    kvt,                 \* each group thread's place in its hashmap call
    kvc_ops,             \* hashmap calls the group threads have begun
    reader,              \* the fields of one fd_reader
    rstream,             \* its connection: bytes to come and bytes unread
    rpackets,            \* the packets read_packet has exposed, in order
    writer,              \* one thread in write_all, and what its peer got
    rbv,                 \* one RBV primary group, its replica and clients
    sync_validate,       \* SCEE_SYNC_VALIDATE is defined
    sampling_rate,       \* scee::sampling_rate
    max_validation_core, \* scee::max_validation_core
    call_limit,          \* run2 calls each application thread may make
    workload,            \* what the application threads call run2 with
    n_validation_core,   \* scee::n_validation_core
    aborted,             \* std::abort() was called
    free_buffers,        \* GlobalLogBufferAllocator::free_buffers
    nr_alloc,            \* slabs obtained from std::aligned_alloc
    buffer_head,         \* LogBufferHead of every slab, by base address
    mem,                 \* objects written into slab bodies, by address
    app_pc,              \* position of each application thread
    call,                \* locals of the run2 call in progress
    ncalls,              \* run2 calls started by the thread
    buffers,             \* ThreadLogAllocator::buffers
    current_log,         \* ThreadLogManager::current_log
    ticket,              \* run2's stack variable validation_ticket
    head_,               \* SpscQueue::head_
    tail_,               \* SpscQueue::tail_
    buffer_,             \* SpscQueue::buffer_
    push_ret,            \* result of the thread's last SpscQueue::push
    stop_validation,     \* thread_local stop_validation
    val_pc,              \* position of each validator thread
    vl,                  \* locals of the validator (log, reader cursor, ...)
    stats,               \* counters of what each thread pair has done
    frame_info,          \* what run2 was called with, by frame address
    acquired,            \* calls of allocate_log_buffer that returned
    released             \* slabs pushed onto free_buffers

kvVars == <<engine, table, halted, kv_ops, kv_last, kv_ref>>
netVars == <<client, fd_open, workers, sock, rd, wire_out, ready, srv_pc, errno,
            sent, dispatched, backlog, req_lines, srv_last>>
kvcVars == <<ctable, cells, locks, kvt, kvc_ops>>
ioVars == <<reader, rstream, rpackets, writer>>
extVars == <<kvcVars, ioVars, rbv>>
srvVars == <<kvVars, netVars, extVars>>
cfgVars == <<sync_validate, sampling_rate, max_validation_core, call_limit,
             workload>>
arenaVars == <<free_buffers, nr_alloc, buffer_head, acquired, released>>
appVars == <<app_pc, call, ncalls, buffers, current_log, ticket>>
queueVars == <<head_, tail_, buffer_, push_ret>>
valVars == <<val_pc, vl>>
rtVars == <<cfgVars, n_validation_core, aborted, arenaVars, mem, appVars,
           queueVars, stop_validation, valVars, stats, frame_info>>
vars == <<rtVars, srvVars>>

(***************************************************************************)
(* Helpers: pointer arithmetic and memory.                                 *)
(***************************************************************************)
\* (Size + 7) & ~7
AlignedSize(n) == ((n + 7) \div 8) * 8
\* round up to the cacheline (64 bytes)
AlignSizeToCacheline(n) == ((n + 63) \div 64) * 64
\* x & (c - 1) for c a power of two
MaskLow(x, c) == x % c
\* reinterpret_cast<uintptr_t>(log) & ~(MAX_LOG_BUFFER_SIZE - 1)
get_log_buffer_head(log) == log - MaskLow(log, MAX_LOG_BUFFER_SIZE)

Write(m, a, v) == [x \in (DOMAIN m) \cup {a} |-> IF x = a THEN v ELSE m[x]]
Erase(m, lo, hi) == [x \in {y \in DOMAIN m : ~(lo <= y /\ y < hi)} |-> m[x]]
Garbage == [kind |-> "garbage"]
Read(m, a) == IF a \in DOMAIN m THEN m[a] ELSE Garbage

\* the functions run2 is called with
Apply(fn, a) ==
    CASE fn = "fn" -> a + 1
      [] fn = "fn_perturbed" -> IF a = 1 THEN a + 2 ELSE a + 1
      [] OTHER -> 0

NoCall == [app_fn |-> "", val_fn |-> "", args |-> 0, args_size |-> 0,
           ret |-> 0, log |-> NULL]
NoTicket == [id |-> 0, val |-> 0]
NoVl == [log |-> NULL, cursor |-> NULL, do_validation |-> FALSE,
         gated |-> FALSE, current |-> 0, path |-> ""]
NoStats == [committed |-> 0, dequeued |-> 0, validated |-> 0, skipped |-> 0,
            reclaimed |-> 0, returned |-> 0, first_div |-> 0,
            stale_ticket |-> FALSE]

(***************************************************************************)
(* Initial states.                                                         *)
(***************************************************************************)
\* value of a key that has no entry: the nullptr hashmap_t::get returns
NoVal == <<>>
NoOp == [op |-> "", key |-> <<>>, val |-> NoVal, ret |-> "", found |-> NoVal,
         present |-> FALSE]
\* hashmap_t::make: every bucket empty
EmptyTable == [b \in 0..(HashCapacity - 1) |-> <<>>]

\* the key/value engine before the first request
InitKv(engines) ==
    /\ engine \in engines
    /\ table = EmptyTable
    /\ halted = ""
    /\ kv_ops = 0
    /\ kv_last = NoOp
    /\ kv_ref = [k \in Keys |-> NoVal]

\* a group thread outside any hashmap call
NoKvt == [at |-> "idle", op |-> "", key |-> <<>>, val |-> NoVal, hv |-> 0,
          pos |-> 0, ptr |-> NULL, ret |-> "", out |-> NoVal,
          dangling |-> FALSE]
\* sei hashmap_t::make: every bucket empty, every mutex unlocked
InitKvc ==
    /\ ctable = EmptyTable
    /\ cells = <<>>
    /\ locks = [b \in 0..(HashCapacity - 1) |-> 0]
    /\ kvt = [t \in Threads |-> NoKvt]
    /\ kvc_ops = 0

\* fd_reader::fd_reader: the buffer is malloc'ed, nothing received
NoReader ==
    [rd_buffer |-> [i \in 0..(kBufferSize - 1) |-> "?"], packet |-> -1,
     rx_bytes |-> 0, cur_pos |-> 0, ret |-> 0, aborted |-> FALSE]
\* a connection that carries the requests lines, none sent yet
StreamOf(lines) == [lines |-> lines, todo |-> Flatten(lines), sock |-> <<>>]
\* no write_all call yet
NoWriter ==
    [pc |-> "idle", buf |-> <<>>, len |-> 0, written |-> 0, fd |-> <<>>,
     before |-> <<>>, calls |-> 0, short |-> FALSE]
\* rbv primary.cpp, Start with both clients accepted: "mode sync\n" or
\* "mode async\n" is on its way to the replica, nothing is pending
RbvStart(sync_validation) ==
    [sync_validation |-> sync_validation,
     workers |-> Conns,
     inbox |-> [c \in Conns |-> <<>>],
     nsent |-> 0,
     pending_responses |-> <<>>,
     shutdown_requested |-> FALSE,
     pc |-> "epoll",
     wire |-> <<[kind |-> "mode", id |-> 0, sync |-> sync_validation]>>,
     replica |-> [mode_set |-> FALSE, sync_mode |-> FALSE, t_start |-> 0,
                  returned |-> FALSE],
     acks |-> <<>>,
     out |-> [c \in Conns |-> <<>>],
     forwarded |-> <<>>,
     released |-> <<>>]
InitIo ==
    /\ reader = NoReader
    /\ rstream = StreamOf(<<>>)
    /\ rpackets = <<>>
    /\ writer = NoWriter
    /\ rbv = RbvStart(FALSE)

\* no packet has been dispatched yet
NoPacket == [nr |-> 0, conn |-> 0, raw |-> <<>>, body |-> <<>>,
             prefixed |-> FALSE,
             verb |-> "", kind |-> "", resp |-> <<>>]
\* Start before the first connection: only the listening socket is polled
InitNetWith(lines) ==
    /\ req_lines = lines
    /\ client = [c \in Conns |-> "idle"]
    /\ fd_open = {}
    /\ workers = {}
    /\ sock = [c \in Conns |-> <<>>]
    /\ rd = [c \in Conns |-> <<>>]
    /\ wire_out = [c \in Conns |-> <<>>]
    /\ ready = {}
    /\ srv_pc = [at |-> "epoll", fd |-> LISTEN]
    /\ errno = "0"
    /\ sent = [c \in Conns |-> <<>>]
    /\ dispatched = [c \in Conns |-> <<>>]
    /\ backlog = {}
    /\ srv_last = NoPacket
InitNet == InitNetWith(ReqLines)

InitWith(active, syncs, rates, caps, limit, work) ==
    /\ call_limit = limit
    /\ workload = work
    /\ sync_validate \in syncs
    /\ sampling_rate \in rates
    /\ max_validation_core \in caps
    /\ n_validation_core = 0
    /\ aborted = FALSE
    /\ free_buffers = <<>>
    /\ nr_alloc = 0
    /\ buffer_head = <<>>
    /\ mem = <<>>
    /\ app_pc = [t \in Threads |-> IF t \in active THEN "start" ELSE "off"]
    /\ call = [t \in Threads |-> NoCall]
    /\ ncalls = [t \in Threads |-> 0]
    /\ buffers = [t \in Threads |-> <<>>]
    /\ current_log = [t \in Threads |-> [head |-> NULL, cursor |-> NULL]]
    /\ ticket = [t \in Threads |-> NoTicket]
    /\ head_ = [t \in Threads |-> 0]
    /\ tail_ = [t \in Threads |-> 0]
    /\ buffer_ = [t \in Threads |-> [i \in 0..(LOG_QUEUE_CAPACITY - 1) |-> NULL]]
    /\ push_ret = [t \in Threads |-> TRUE]
    /\ stop_validation = [t \in Threads |-> FALSE]
    /\ val_pc = [t \in Threads |-> "none"]
    /\ vl = [t \in Threads |-> NoVl]
    /\ stats = [t \in Threads |-> NoStats]
    /\ frame_info = <<>>
    /\ acquired = 0
    /\ released = 0

\* every function pair, argument value and argument size
FullWorkload == [fns |-> FnPairs, args |-> ArgValues, sizes |-> ArgSizes]
\* agreeing functions on one small argument
PlainWorkload == [fns |-> {<<"fn", "fn">>}, args |-> {0}, sizes |-> {8}]
\* agreeing functions on one argument that fills a slab
BulkWorkload ==
    [fns |-> {<<"fn", "fn">>}, args |-> {0}, sizes |-> {MIN_LOG_BUFFER_SIZE - 64}]

Init ==
    /\ InitWith({1}, BOOLEAN, SamplingRates, {0}, MaxCalls, FullWorkload)
    /\ InitKv({"orthrus"})
    /\ InitNet
    /\ InitKvc
    /\ InitIo

(***************************************************************************)
(* The slab arena and the per-thread allocator (log.hpp).                  *)
(***************************************************************************)
nullptr == [t |-> 0, id |-> 0]

\* allocate_log_buffer: the slab it returns, reusing a free one first
allocate_log_buffer_result ==
    IF free_buffers = <<>>
    THEN (nr_alloc + 1) * MAX_LOG_BUFFER_SIZE
    ELSE Head(free_buffers)

\* faulty variant: the room of two frames is asked for instead of one
is_buffer_exhausted_early(buffer, next_log_addr) ==
    next_log_addr - buffer > MAX_LOG_BUFFER_SIZE - 2 * MIN_LOG_BUFFER_SIZE

\* faulty variant: a slab counts as exhausted only at its very end
is_buffer_exhausted_late(buffer, next_log_addr) ==
    next_log_addr - buffer > MAX_LOG_BUFFER_SIZE

\* the check of ThreadLogAllocator::commit and is_buffer_exhausted
is_buffer_exhausted(buffer, next_log_addr) ==
    next_log_addr - buffer > MAX_LOG_BUFFER_SIZE - MIN_LOG_BUFFER_SIZE

\* sizeof(Closure) for an argument tuple of args_size bytes
SizeofClosure(args_size) == SizeofClosureBase + args_size

(***************************************************************************)
(* The SPSC ring (queue.hpp).                                              *)
(***************************************************************************)
\* faulty variant: the full test is off by one (> for >=)
SpscPush_off_by_one(h, tl, buf, value) ==
    IF h - tl > LOG_QUEUE_CAPACITY
    THEN [ok |-> FALSE, head |-> h, buffer |-> buf]
    ELSE [ok |-> TRUE, head |-> h + 1,
          buffer |-> [buf EXCEPT ![MaskLow(h, LOG_QUEUE_CAPACITY)] = value]]

\* SpscQueue::push: the value returned and the queue it leaves
SpscPush(h, tl, buf, value) ==
    IF h - tl >= LOG_QUEUE_CAPACITY
    THEN [ok |-> FALSE, head |-> h, buffer |-> buf]
    ELSE [ok |-> TRUE, head |-> h + 1,
          buffer |-> [buf EXCEPT ![MaskLow(h, LOG_QUEUE_CAPACITY)] = value]]

\* faulty variant: the newest slot is read instead of the oldest
SpscPop_newest(h, tl, buf) ==
    IF tl = h
    THEN [ok |-> FALSE, tail |-> tl, value |-> NULL]
    ELSE [ok |-> TRUE, tail |-> tl + 1,
          value |-> buf[MaskLow(h - 1, LOG_QUEUE_CAPACITY)]]

\* SpscQueue::pop
SpscPop(h, tl, buf) ==
    IF tl = h
    THEN [ok |-> FALSE, tail |-> tl, value |-> NULL]
    ELSE [ok |-> TRUE, tail |-> tl + 1,
          value |-> buf[MaskLow(tl, LOG_QUEUE_CAPACITY)]]

\* SpscQueue::empty
SpscEmpty(h, tl) == tl = h

(***************************************************************************)
(* Application thread: AppThread's lambda and run2 (thread.hpp, scee.hpp). *)
(***************************************************************************)
\* AppThread::register_queue
RegisterQueue(t) ==
    /\ ~aborted
    /\ app_pc[t] = "start"
    /\ stop_validation' = [stop_validation EXCEPT ![t] = FALSE]
    /\ val_pc' = [val_pc EXCEPT ![t] = "outer"]
    /\ app_pc' = [app_pc EXCEPT ![t] = "serve"]
    /\ UNCHANGED <<srvVars, cfgVars, n_validation_core, aborted, arenaVars, mem, call,
                   ncalls, buffers, current_log, ticket, queueVars, vl, stats,
                   frame_info>>

\* run2 up to the appended closure record: the ticket, new_log (with
\* ThreadLogAllocator::allocate) and append_log_typed(Closure(val_fn, args))
Run2NewLog(t) ==
    /\ ~aborted
    /\ app_pc[t] = "serve"
    /\ ncalls[t] < call_limit
    /\ \E fp \in workload.fns, a \in workload.args, sz \in workload.sizes :
         LET fresh == buffers[t] = <<>>
             buffer == allocate_log_buffer_result
             log == IF fresh THEN buffer + SizeofLogBufferHead
                    ELSE Head(buffers[t])
             cur0 == log + SizeofLogHead
             cur1 == cur0 + AlignedSize(SizeofClosure(sz))
             m0 == Write(mem, log, [kind |-> "head", length |-> 0,
                                    reclaimed |-> 0,
                                    validation_ticket |-> nullptr])
             m1 == Write(m0, cur0, [kind |-> "closure", fn |-> fp[2],
                                    args |-> a, size |-> SizeofClosure(sz)])
         IN
         /\ IF fresh
            THEN /\ IF free_buffers = <<>>
                    THEN /\ nr_alloc' = nr_alloc + 1
                         /\ UNCHANGED free_buffers
                    ELSE /\ free_buffers' = Tail(free_buffers)
                         /\ UNCHANGED nr_alloc
                 /\ acquired' = acquired + 1
                 /\ buffer_head' =
                        Write(buffer_head, buffer,
                              [nr_logs |-> 0, in_use |-> 1, nr_reclaimed |-> 0])
                 /\ UNCHANGED buffers
            ELSE /\ buffers' = [buffers EXCEPT ![t] = Tail(@)]
                 /\ UNCHANGED <<free_buffers, nr_alloc, acquired, buffer_head>>
         /\ mem' = m1
         /\ current_log' = [current_log EXCEPT ![t] =
                               [head |-> log, cursor |-> cur1]]
         /\ ticket' = [ticket EXCEPT ![t] =
                          IF sync_validate
                          THEN [id |-> ncalls[t] + 1, val |-> 0]
                          ELSE NoTicket]
         /\ call' = [call EXCEPT ![t] =
                        [app_fn |-> fp[1], val_fn |-> fp[2], args |-> a,
                         args_size |-> sz, ret |-> 0, log |-> log]]
         /\ frame_info' = Write(frame_info, log,
                                [thread |-> t, id |-> ncalls[t] + 1,
                                 app_fn |-> fp[1], val_fn |-> fp[2],
                                 args |-> a, ret |-> 0, seq |-> 0,
                                 validated |-> FALSE])
    /\ ncalls' = [ncalls EXCEPT ![t] = @ + 1]
    /\ app_pc' = [app_pc EXCEPT ![t] = "run_app"]
    /\ UNCHANGED <<srvVars, cfgVars, n_validation_core, aborted, released, queueVars,
                   stop_validation, valVars, stats>>

\* func->run_with_fn(app_fn) on the logged argument tuple, and
\* append_log_typed(ret)
Run2App(t) ==
    /\ ~aborted
    /\ app_pc[t] = "run_app"
    /\ LET log == current_log[t].head
           func == Read(mem, log + SizeofLogHead)
           ret == Apply(call[t].app_fn, func.args)
           cur == current_log[t].cursor
       IN
       /\ mem' = Write(mem, cur, [kind |-> "ret", value |-> ret,
                                  size |-> SizeofRet])
       /\ current_log' = [current_log EXCEPT ![t].cursor =
                             cur + AlignedSize(SizeofRet)]
       /\ call' = [call EXCEPT ![t].ret = ret]
       /\ frame_info' = [frame_info EXCEPT ![log].ret = ret]
    /\ app_pc' = [app_pc EXCEPT ![t] = "commit"]
    /\ UNCHANGED <<srvVars, cfgVars, n_validation_core, aborted, arenaVars, ncalls,
                   buffers, ticket, queueVars, stop_validation, valVars, stats>>

\* faulty variant: commit leaves the slab's count of logs as it was
CountLog_skipped(nr_logs) == nr_logs

\* ThreadLogAllocator::commit: buffer->nr_logs++
CountLog(nr_logs) == nr_logs + 1

\* commit_log up to nr_logs++ of ThreadLogAllocator::commit: the tail and the
\* lengths are written, then the slab's count of logs is raised
CommitLog(t) ==
    /\ ~aborted
    /\ app_pc[t] = "commit"
    /\ LET log == current_log[t].head
           log_tail == current_log[t].cursor
           cursor == log_tail + SizeofLogTail
           log_length == cursor - log
           buffer == get_log_buffer_head(log)
           m0 == [mem EXCEPT ![log].length = log_length,
                             ![log].validation_ticket =
                                 IF sync_validate
                                 THEN [t |-> t, id |-> ticket[t].id]
                                 ELSE nullptr]
       IN
       /\ mem' = Write(m0, log_tail, [kind |-> "tail", length |-> log_length,
                                      magic |-> MAGIC])
       /\ buffer_head' = [buffer_head EXCEPT ![buffer].nr_logs = CountLog(@)]
    /\ app_pc' = [app_pc EXCEPT ![t] = "commit_cursor"]
    /\ UNCHANGED <<srvVars, cfgVars, n_validation_core, aborted, free_buffers, nr_alloc,
                   acquired, released, call, ncalls, buffers, current_log,
                   ticket, queueVars, stop_validation, valVars, stats,
                   frame_info>>

\* the rest of ThreadLogAllocator::commit: keep the cursor of the slab, or
\* clear in_use when less than one frame of room is left
CommitCursor(t) ==
    /\ ~aborted
    /\ app_pc[t] = "commit_cursor"
    /\ LET log == current_log[t].head
           buffer == get_log_buffer_head(log)
           next_log_addr == log + AlignSizeToCacheline(mem[log].length)
       IN
       IF ~is_buffer_exhausted(buffer, next_log_addr)
       THEN /\ buffers' = [buffers EXCEPT ![t] = <<next_log_addr>> \o @]
            /\ UNCHANGED buffer_head
       ELSE /\ buffer_head' = [buffer_head EXCEPT ![buffer].in_use = 0]
            /\ UNCHANGED buffers
    /\ app_pc' = [app_pc EXCEPT ![t] = "enqueue"]
    /\ UNCHANGED <<srvVars, cfgVars, n_validation_core, aborted, free_buffers, nr_alloc,
                   acquired, released, mem, call, ncalls, current_log, ticket,
                   queueVars, stop_validation, valVars, stats, frame_info>>

\* the call's app_fn returns another value than its val_fn computes
Diverges(c) == Apply(c.app_fn, c.args) # Apply(c.val_fn, c.args)

\* one round of log_enqueue's loop: SpscQueue::push, retried while it fails
LogEnqueue(t) ==
    /\ ~aborted
    /\ app_pc[t] = "enqueue"
    /\ LET log == current_log[t].head
           r == SpscPush(head_[t], tail_[t], buffer_[t], log)
       IN
       /\ head_' = [head_ EXCEPT ![t] = r.head]
       /\ buffer_' = [buffer_ EXCEPT ![t] = r.buffer]
       /\ push_ret' = [push_ret EXCEPT ![t] = r.ok]
       /\ IF r.ok
          THEN /\ stats' = [stats EXCEPT
                            ![t].committed = @ + 1,
                            ![t].first_div =
                                IF @ = 0 /\ Diverges(call[t]) THEN ncalls[t]
                                ELSE @]
               /\ frame_info' = [frame_info EXCEPT ![log].seq =
                                    stats[t].committed + 1]
               /\ app_pc' = [app_pc EXCEPT ![t] =
                                IF sync_validate THEN "wait_ticket"
                                ELSE "return"]
          ELSE UNCHANGED <<stats, frame_info, app_pc>>
    /\ UNCHANGED <<srvVars, cfgVars, n_validation_core, aborted, arenaVars, mem, call,
                   ncalls, buffers, current_log, ticket, tail_,
                   stop_validation, valVars>>

\* faulty variant: the wait returns at once
TicketRaised_no_wait(v) == TRUE

\* what validation_ticket.wait(0) waits for
TicketRaised(v) == v # 0

\* validation_ticket.wait(0): returns once the ticket is no longer 0
WaitTicket(t) ==
    /\ ~aborted
    /\ app_pc[t] = "wait_ticket"
    /\ TicketRaised(ticket[t].val)
    /\ app_pc' = [app_pc EXCEPT ![t] = "return"]
    /\ UNCHANGED <<srvVars, cfgVars, n_validation_core, aborted, arenaVars, mem, call,
                   ncalls, buffers, current_log, ticket, queueVars,
                   stop_validation, valVars, stats, frame_info>>

\* run2 returns ret to its caller, which writes the response; the ticket
\* leaves scope
Run2Return(t) ==
    /\ ~aborted
    /\ app_pc[t] = "return"
    /\ stats' = [stats EXCEPT ![t].returned = @ + 1]
    /\ ticket' = [ticket EXCEPT ![t] = NoTicket]
    /\ call' = [call EXCEPT ![t] = NoCall]
    /\ app_pc' = [app_pc EXCEPT ![t] = "serve"]
    /\ UNCHANGED <<srvVars, cfgVars, n_validation_core, aborted, arenaVars, mem, ncalls,
                   buffers, current_log, queueVars, stop_validation, valVars,
                   frame_info>>

\* the thread's function f returns (the server's Start returns on quit)
AppFinish(t) ==
    /\ ~aborted
    /\ app_pc[t] = "serve"
    /\ app_pc' = [app_pc EXCEPT ![t] = "unregister"]
    /\ UNCHANGED <<srvVars, cfgVars, n_validation_core, aborted, arenaVars, mem, call,
                   ncalls, buffers, current_log, ticket, queueVars,
                   stop_validation, valVars, stats, frame_info>>

\* AppThread::unregister_queue: stop_validation = true
UnregisterQueue(t) ==
    /\ ~aborted
    /\ app_pc[t] = "unregister"
    /\ stop_validation' = [stop_validation EXCEPT ![t] = TRUE]
    /\ app_pc' = [app_pc EXCEPT ![t] = "join"]
    /\ UNCHANGED <<srvVars, cfgVars, n_validation_core, aborted, arenaVars, mem, call,
                   ncalls, buffers, current_log, ticket, queueVars, valVars,
                   stats, frame_info>>

\* AppThread::unregister_queue: validator_thread.join() returns
JoinValidator(t) ==
    /\ ~aborted
    /\ app_pc[t] = "join"
    /\ val_pc[t] = "exited"
    /\ app_pc' = [app_pc EXCEPT ![t] = "done"]
    /\ UNCHANGED <<srvVars, cfgVars, n_validation_core, aborted, arenaVars, mem, call,
                   ncalls, buffers, current_log, ticket, queueVars,
                   stop_validation, valVars, stats, frame_info>>

(***************************************************************************)
(* Validator thread: validate and validate_one (scee.cpp), LogReader and   *)
(* reclaim_log (log.hpp), Closure::validate (scee.hpp).                    *)
(***************************************************************************)
\* validate: while (!stop)
ValOuter(t) ==
    /\ ~aborted
    /\ val_pc[t] = "outer"
    /\ val_pc' = [val_pc EXCEPT ![t] =
                     IF stop_validation[t] THEN "exited" ELSE "wait"]
    /\ UNCHANGED <<srvVars, cfgVars, n_validation_core, aborted, arenaVars, mem, appVars,
                   queueVars, stop_validation, vl, stats, frame_info>>

\* faulty variant: the spin looks at the ring only
SpinOver_ignores_stop(empty, stop) == ~empty

\* the condition of while (queue->empty() && !stop) is false
SpinOver(empty, stop) == ~(empty /\ ~stop)

\* validate: while (queue->empty() && !stop) cpu_relax(); left when the
\* condition is false
ValWait(t) ==
    /\ ~aborted
    /\ val_pc[t] = "wait"
    /\ SpinOver(SpscEmpty(head_[t], tail_[t]), stop_validation[t])
    /\ val_pc' = [val_pc EXCEPT ![t] = "drain"]
    /\ UNCHANGED <<srvVars, cfgVars, n_validation_core, aborted, arenaVars, mem, appVars,
                   queueVars, stop_validation, vl, stats, frame_info>>

\* validate: log_dequeue in the inner loop; nullptr leaves the loop
ValDequeue(t) ==
    /\ ~aborted
    /\ val_pc[t] = "drain"
    /\ LET r == SpscPop(head_[t], tail_[t], buffer_[t]) IN
       /\ tail_' = [tail_ EXCEPT ![t] = r.tail]
       /\ IF r.ok
          THEN /\ vl' = [vl EXCEPT ![t] = [NoVl EXCEPT !.log = r.value]]
               /\ stats' = [stats EXCEPT ![t].dequeued = @ + 1]
               /\ val_pc' = [val_pc EXCEPT ![t] = "validate_one"]
          ELSE /\ val_pc' = [val_pc EXCEPT ![t] = "outer"]
               /\ UNCHANGED <<vl, stats>>
    /\ UNCHANGED <<srvVars, cfgVars, n_validation_core, aborted, arenaVars, mem, appVars,
                   head_, buffer_, push_ret, stop_validation, frame_info>>

\* faulty variant: the sampling is not compiled out in synchronous mode
DoValidation_sampled(sync, rate, r) ==
    IF rate < 100 THEN r < rate ELSE TRUE

\* validate_one: do_validation, sampled only without SCEE_SYNC_VALIDATE
DoValidation(sync, rate, r) ==
    IF sync THEN TRUE
    ELSE IF rate < 100 THEN r < rate ELSE TRUE

\* validate_one: the choice between validating and reclaiming unvalidated
ValidateOne(t) ==
    /\ ~aborted
    /\ val_pc[t] = "validate_one"
    /\ \E r \in RandValues :
         LET do_validation == DoValidation(sync_validate, sampling_rate, r) IN
         /\ vl' = [vl EXCEPT ![t].do_validation = do_validation,
                             ![t].path = IF do_validation THEN "validate"
                                         ELSE "skip"]
         /\ stats' = [stats EXCEPT ![t].skipped =
                         IF do_validation THEN @ ELSE @ + 1]
         /\ val_pc' = [val_pc EXCEPT ![t] =
                          IF ~do_validation THEN "reclaim"
                          ELSE IF max_validation_core = 0 THEN "validate"
                          ELSE IF sync_validate THEN "gate_load"
                          ELSE "gate_fetch_add"]
    /\ UNCHANGED <<srvVars, cfgVars, n_validation_core, aborted, arenaVars, mem, appVars,
                   queueVars, stop_validation, frame_info>>

\* faulty variant: memcmp's result is not negated away, any logged value passes
CmpLog_any(data, obj) == obj.kind = "ret"

\* LogReader::cmp_log: !memcmp(data, cursor, Size) against the logged object
CmpLog(data, obj) == obj.kind = "ret" /\ obj.value = data

\* faulty variant: val_fn is run on another argument tuple than the recorded
ClosureRun_other_args(closure) == Apply(closure.fn, 1 - closure.args)

\* the function Closure::validate runs: the fn stored in the closure record
ClosureRun(closure) == Apply(closure.fn, closure.args)

\* the lambda validate up to close(): open, peek, Closure::validate (skip,
\* run, cmp_log_typed with validator_assert)
ValValidate(t) ==
    /\ ~aborted
    /\ val_pc[t] = "validate"
    /\ LET log == vl[t].log
           cur0 == log + SizeofLogHead
           validable == Read(mem, cur0)
           cur1 == cur0 + AlignedSize(validable.size)
           ret == ClosureRun(validable)
           same == CmpLog(ret, Read(mem, cur1))
       IN
       IF validable.kind = "closure" /\ same
       THEN /\ vl' = [vl EXCEPT ![t].cursor = cur1 + AlignedSize(SizeofRet)]
            /\ stats' = [stats EXCEPT ![t].validated = @ + 1]
            /\ frame_info' = [frame_info EXCEPT ![log].validated = TRUE]
            /\ val_pc' = [val_pc EXCEPT ![t] = "close"]
            /\ UNCHANGED aborted
       ELSE /\ aborted' = TRUE
            /\ vl' = [vl EXCEPT ![t].path = "validator_assert"]
            /\ UNCHANGED <<stats, frame_info, val_pc>>
    /\ UNCHANGED <<srvVars, cfgVars, n_validation_core, arenaVars, mem, appVars,
                   queueVars, stop_validation>>

\* faulty variant: close returns without reclaim_log
CloseThen_no_reclaim == "drain"

\* LogReader::close: once the tail has passed, reclaim_log(log)
CloseThen == "reclaim"

\* LogReader::close up to reclaim_log: the tail's magic and length checks
ValClose(t) ==
    /\ ~aborted
    /\ val_pc[t] = "close"
    /\ LET log == vl[t].log
           tail == Read(mem, vl[t].cursor)
           cursor == vl[t].cursor + AlignedSize(SizeofLogTail)
       IN
       IF tail.kind = "tail" /\ tail.magic = MAGIC
          /\ tail.length = cursor - log
       THEN /\ vl' = [vl EXCEPT ![t].cursor = cursor]
            /\ val_pc' = [val_pc EXCEPT ![t] = CloseThen]
            /\ UNCHANGED aborted
       ELSE /\ aborted' = TRUE
            /\ vl' = [vl EXCEPT ![t].path = "tail_mismatch"]
            /\ UNCHANGED val_pc
    /\ UNCHANGED <<srvVars, cfgVars, n_validation_core, arenaVars, mem, appVars,
                   queueVars, stop_validation, stats, frame_info>>

\* the validator's locals once reclaim_log has returned: only whether the
\* gate counter is still to be decremented remains
Returned(v) == [NoVl EXCEPT !.gated = v.gated]

\* where validate_one continues once the frame is reclaimed
AfterReclaim(t) ==
    IF vl[t].gated THEN "gate_sub" ELSE "drain"

\* reclaim_log: validation_ticket->store(1) when the frame carries a ticket
ReclaimTicket(t) ==
    /\ ~aborted
    /\ val_pc[t] = "reclaim"
    /\ LET tk == mem[vl[t].log].validation_ticket IN
       IF tk # nullptr
       THEN /\ IF ticket[tk.t].id = tk.id
               THEN /\ ticket' = [ticket EXCEPT ![tk.t].val = 1]
                    /\ UNCHANGED stats
               ELSE /\ stats' = [stats EXCEPT ![t].stale_ticket = TRUE]
                    /\ UNCHANGED ticket
            /\ val_pc' = [val_pc EXCEPT ![t] = "reclaim_notify"]
       ELSE /\ val_pc' = [val_pc EXCEPT ![t] = "reclaim_count"]
            /\ UNCHANGED <<ticket, stats>>
    /\ UNCHANGED <<srvVars, cfgVars, n_validation_core, aborted, arenaVars, mem, app_pc,
                   call, ncalls, buffers, current_log, queueVars,
                   stop_validation, vl, frame_info>>

\* reclaim_log: validation_ticket->notify_one(), then the frame's pointer to
\* the ticket is cleared
ReclaimNotify(t) ==
    /\ ~aborted
    /\ val_pc[t] = "reclaim_notify"
    /\ LET log == vl[t].log
           tk == mem[log].validation_ticket
       IN
       /\ stats' = [stats EXCEPT ![t].stale_ticket =
                       @ \/ ticket[tk.t].id # tk.id]
       /\ mem' = [mem EXCEPT ![log].validation_ticket = nullptr]
    /\ val_pc' = [val_pc EXCEPT ![t] = "reclaim_count"]
    /\ UNCHANGED <<srvVars, cfgVars, n_validation_core, aborted, arenaVars, appVars,
                   queueVars, stop_validation, vl, frame_info>>

\* reclaim_log: buffer->nr_reclaimed.fetch_add(1); the frame is not read again
ReclaimCount(t) ==
    /\ ~aborted
    /\ val_pc[t] = "reclaim_count"
    /\ LET log == vl[t].log
           buffer == get_log_buffer_head(log)
       IN
       /\ buffer_head' = [buffer_head EXCEPT ![buffer].nr_reclaimed = @ + 1]
       /\ mem' = Erase(mem, log, log + mem[log].length)
       /\ frame_info' = Erase(frame_info, log, log + 1)
    /\ stats' = [stats EXCEPT ![t].reclaimed = @ + 1]
    /\ val_pc' = [val_pc EXCEPT ![t] = "reclaim_in_use"]
    /\ UNCHANGED <<srvVars, cfgVars, n_validation_core, aborted, free_buffers, nr_alloc,
                   acquired, released, appVars, queueVars, stop_validation, vl>>

\* faulty variant: in_use is not looked at
InUseIsClear_ignored(h) == TRUE

\* reclaim_log: if (buffer->in_use == 0)
InUseIsClear(h) == h.in_use = 0

\* reclaim_log: the unsynchronized read of in_use. in_use and nr_logs are
\* plain fields the producer stores in commit; the validator sees the two
\* stores in the order the producer made them (nr_logs++ before in_use = 0),
\* as on the x86 machines whose time stamp counter validate reads (rdtsc)
ReclaimInUse(t) ==
    /\ ~aborted
    /\ val_pc[t] = "reclaim_in_use"
    /\ LET buffer == get_log_buffer_head(vl[t].log) IN
       IF InUseIsClear(buffer_head[buffer])
       THEN /\ val_pc' = [val_pc EXCEPT ![t] = "reclaim_cmp"]
            /\ UNCHANGED vl
       ELSE /\ val_pc' = [val_pc EXCEPT ![t] = AfterReclaim(t)]
            /\ vl' = [vl EXCEPT ![t] = Returned(@)]
    /\ UNCHANGED <<srvVars, cfgVars, n_validation_core, aborted, arenaVars, mem, appVars,
                   queueVars, stop_validation, stats, frame_info>>

\* reclaim_log: if (buffer->nr_reclaimed == buffer->nr_logs)
AllReclaimed(h) == h.nr_reclaimed = h.nr_logs

\* reclaim_log: the comparison of nr_reclaimed with nr_logs
ReclaimCmp(t) ==
    /\ ~aborted
    /\ val_pc[t] = "reclaim_cmp"
    /\ LET buffer == get_log_buffer_head(vl[t].log) IN
       IF AllReclaimed(buffer_head[buffer])
       THEN /\ val_pc' = [val_pc EXCEPT ![t] = "reclaim_free"]
            /\ UNCHANGED vl
       ELSE /\ val_pc' = [val_pc EXCEPT ![t] = AfterReclaim(t)]
            /\ vl' = [vl EXCEPT ![t] = Returned(@)]
    /\ UNCHANGED <<srvVars, cfgVars, n_validation_core, aborted, arenaVars, mem, appVars,
                   queueVars, stop_validation, stats, frame_info>>

\* reclaim_log: free_buffers.push(buffer) under the spin lock
ReclaimFree(t) ==
    /\ ~aborted
    /\ val_pc[t] = "reclaim_free"
    /\ LET buffer == get_log_buffer_head(vl[t].log) IN
       free_buffers' = Append(free_buffers, buffer)
    /\ released' = released + 1
    /\ val_pc' = [val_pc EXCEPT ![t] = AfterReclaim(t)]
    /\ vl' = [vl EXCEPT ![t] = Returned(@)]
    /\ UNCHANGED <<srvVars, cfgVars, n_validation_core, aborted, nr_alloc, buffer_head,
                   acquired, mem, appVars, queueVars, stop_validation, stats,
                   frame_info>>

(***************************************************************************)
(* The concurrency-limit gate of validate_one (max_validation_core # 0).   *)
(***************************************************************************)
\* faulty variant: the cap itself is let through (> for >=)
GateFull_off_by_one(current, cap) == current > cap

\* validate_one, SCEE_SYNC_VALIDATE: if (current >= max_validation_core)
GateFull(current, cap) == current >= cap

\* faulty variant: a full gate still lets the frame in
GateAdmits_always(previous, cap) == TRUE

\* validate_one, asynchronous: fetch_add(1) < max_validation_core
GateAdmits(previous, cap) == previous < cap

\* sync: current = n_validation_core.load(); at or above the cap it waits
GateLoad(t) ==
    /\ ~aborted
    /\ val_pc[t] = "gate_load"
    /\ vl' = [vl EXCEPT ![t].current = n_validation_core]
    /\ val_pc' = [val_pc EXCEPT ![t] =
                     IF GateFull(n_validation_core, max_validation_core)
                     THEN "gate_wait" ELSE "gate_cas"]
    /\ UNCHANGED <<srvVars, cfgVars, n_validation_core, aborted, arenaVars, mem, appVars,
                   queueVars, stop_validation, stats, frame_info>>

\* sync: n_validation_core.wait(current) returns once the value differs
GateWait(t) ==
    /\ ~aborted
    /\ val_pc[t] = "gate_wait"
    /\ n_validation_core # vl[t].current
    /\ val_pc' = [val_pc EXCEPT ![t] = "gate_load"]
    /\ UNCHANGED <<srvVars, cfgVars, n_validation_core, aborted, arenaVars, mem, appVars,
                   queueVars, stop_validation, vl, stats, frame_info>>

\* sync: compare_exchange_strong(current, current + 1)
GateCas(t) ==
    /\ ~aborted
    /\ val_pc[t] = "gate_cas"
    /\ IF n_validation_core = vl[t].current
       THEN /\ n_validation_core' = n_validation_core + 1
            /\ vl' = [vl EXCEPT ![t].gated = TRUE]
            /\ val_pc' = [val_pc EXCEPT ![t] = "validate"]
       ELSE /\ val_pc' = [val_pc EXCEPT ![t] = "gate_load"]
            /\ UNCHANGED <<n_validation_core, vl>>
    /\ UNCHANGED <<srvVars, cfgVars, aborted, arenaVars, mem, appVars, queueVars,
                   stop_validation, stats, frame_info>>

\* async: n_validation_core.fetch_add(1) < max_validation_core
GateFetchAdd(t) ==
    /\ ~aborted
    /\ val_pc[t] = "gate_fetch_add"
    /\ n_validation_core' = n_validation_core + 1
    /\ IF GateAdmits(n_validation_core, max_validation_core)
       THEN /\ vl' = [vl EXCEPT ![t].gated = TRUE]
            /\ val_pc' = [val_pc EXCEPT ![t] = "validate"]
            /\ UNCHANGED stats
       ELSE /\ vl' = [vl EXCEPT ![t].gated = TRUE, ![t].path = "skip"]
            /\ stats' = [stats EXCEPT ![t].skipped = @ + 1]
            /\ val_pc' = [val_pc EXCEPT ![t] = "reclaim"]
    /\ UNCHANGED <<srvVars, cfgVars, aborted, arenaVars, mem, appVars, queueVars,
                   stop_validation, frame_info>>

\* faulty variant: the validator leaves without giving its place back
GateLeave_kept(n) == n

\* validate_one: what n_validation_core.fetch_sub(1) leaves in the counter
GateLeave(n) == n - 1

\* n_validation_core.fetch_sub(1) (sync: followed by notify_one)
GateSub(t) ==
    /\ ~aborted
    /\ val_pc[t] = "gate_sub"
    /\ n_validation_core' = GateLeave(n_validation_core)
    /\ vl' = [vl EXCEPT ![t] = NoVl]
    /\ val_pc' = [val_pc EXCEPT ![t] = "drain"]
    /\ UNCHANGED <<srvVars, cfgVars, aborted, arenaVars, mem, appVars, queueVars,
                   stop_validation, stats, frame_info>>

(***************************************************************************)
(* Specifications.                                                         *)
(***************************************************************************)
AppStep(t) ==
    \/ RegisterQueue(t)
    \/ Run2NewLog(t)
    \/ Run2App(t)
    \/ CommitLog(t)
    \/ CommitCursor(t)
    \/ LogEnqueue(t)
    \/ WaitTicket(t)
    \/ Run2Return(t)
    \/ AppFinish(t)
    \/ UnregisterQueue(t)
    \/ JoinValidator(t)

ValStep(t) ==
    \/ ValOuter(t)
    \/ ValWait(t)
    \/ ValDequeue(t)
    \/ ValidateOne(t)
    \/ ValValidate(t)
    \/ ValClose(t)
    \/ ReclaimTicket(t)
    \/ ReclaimNotify(t)
    \/ ReclaimCount(t)
    \/ ReclaimInUse(t)
    \/ ReclaimCmp(t)
    \/ ReclaimFree(t)

GateStep(t) ==
    \/ GateLoad(t)
    \/ GateWait(t)
    \/ GateCas(t)
    \/ GateFetchAdd(t)
    \/ GateSub(t)

Next == \E t \in Threads : AppStep(t) \/ ValStep(t)

\* one application thread and its validator, no concurrency cap
Spec == Init /\ [][Next]_vars

\* frames that end exactly where the last frame of a slab may start
\* (MIN_LOG_BUFFER_SIZE - 192 bytes of arguments behind the slab's header),
\* frames of the full MIN_LOG_BUFFER_SIZE, and small ones
EdgeWorkload ==
    [fns |-> {<<"fn", "fn">>}, args |-> {0},
     sizes |-> {8, MIN_LOG_BUFFER_SIZE - 192, MIN_LOG_BUFFER_SIZE - 64}]
\* one application thread and its validator filling slabs to their edges
InitSlab ==
    /\ InitWith({1}, BOOLEAN, {100}, {0}, MaxCallsSlab, EdgeWorkload)
    /\ InitKv({"orthrus"})
    /\ InitNet
    /\ InitKvc
    /\ InitIo
SpecSlab == InitSlab /\ [][Next]_vars

\* agreeing functions on an argument with which a slab takes two frames
ArenaWorkload ==
    [fns |-> {<<"fn", "fn">>}, args |-> {0},
     sizes |-> {MIN_LOG_BUFFER_SIZE - 192}]
\* two application threads whose validators release the slabs to the arena
\* the other thread allocates from
InitArena ==
    /\ InitWith(Threads, BOOLEAN, {100}, {0}, MaxCallsArena, ArenaWorkload)
    /\ InitKv({"orthrus"})
    /\ InitNet
    /\ InitKvc
    /\ InitIo
SpecArena == InitArena /\ [][Next]_vars

\* two application threads and their validators under a cap of one
InitGate ==
    /\ InitWith(Threads, BOOLEAN, {100}, {1}, MaxCallsGate, BulkWorkload)
    /\ InitKv({"orthrus"})
    /\ InitNet
    /\ InitKvc
    /\ InitIo
NextGate == \E t \in Threads : AppStep(t) \/ ValStep(t) \/ GateStep(t)
SpecGate == InitGate /\ [][NextGate]_vars

\* the same threads under a scheduler that lets every thread run: each
\* application thread, each validator and each gate loop keeps taking steps
\* while it has one to take
InitLive ==
    /\ InitWith(Threads, BOOLEAN, {100}, {0, 1}, MaxCallsLive, BulkWorkload)
    /\ InitKv({"orthrus"})
    /\ InitNet
    /\ InitKvc
    /\ InitIo
Fairness ==
    \A t \in Threads :
        /\ WF_vars(AppStep(t))
        /\ WF_vars(ValStep(t))
        /\ WF_vars(GateStep(t))
SpecLive == InitLive /\ [][NextGate]_vars /\ Fairness

\* the steps of a thread inside run2, from the first append to the return
Run2Step(t) ==
    \/ Run2App(t)
    \/ CommitLog(t)
    \/ CommitCursor(t)
    \/ LogEnqueue(t)
    \/ WaitTicket(t)
    \/ Run2Return(t)

\* every thread that can go on inside run2 or inside validate does so in the
\* end; whether and when the thread's function calls run2 again or returns
\* (after which unregister_queue sets the stop flag) is left to the function
FairnessRun2 ==
    \A t \in Threads :
        /\ WF_vars(RegisterQueue(t))
        /\ WF_vars(Run2Step(t))
        /\ WF_vars(ValStep(t))
        /\ WF_vars(GateStep(t))
SpecRun2 == InitLive /\ [][NextGate]_vars /\ FairnessRun2

\* where commit_log put the tail of the frame at log: behind the head, the
\* closure record and the logged return value
FrameTail(log) ==
    log + SizeofLogHead + AlignedSize(Read(mem, log + SizeofLogHead).size)
        + AlignedSize(SizeofRet)

\* the frame's tail does not carry MAGIC, or its recorded length is not the
\* distance from the head to the end of the tail
BadTail(m, log) ==
    LET tail == Read(m, FrameTail(log)) IN
    \/ tail.kind # "tail"
    \/ tail.magic # MAGIC
    \/ tail.length # FrameTail(log) + SizeofLogTail - log

\* the frame is on the ring: enqueued and not yet dequeued
OnRing(t, log) ==
    /\ frame_info[log].thread = t
    /\ frame_info[log].seq # 0
    /\ frame_info[log].seq > stats[t].dequeued

\* a fault of the memory under a frame that waits on the ring of thread t:
\* the magic or the length of its tail changes
CorruptTail(t) ==
    /\ ~aborted
    /\ \E log \in DOMAIN frame_info :
         /\ OnRing(t, log)
         /\ ~BadTail(mem, log)
         /\ \/ mem' = [mem EXCEPT ![FrameTail(log)].magic = 0]
            \/ mem' = [mem EXCEPT ![FrameTail(log)].length = @ + SizeofLogTail]
    /\ UNCHANGED <<srvVars, cfgVars, n_validation_core, aborted, arenaVars,
                   appVars, queueVars, stop_validation, valVars, stats,
                   frame_info>>

\* agreeing functions on one argument, small and slab-filling
SizedWorkload == [fns |-> {<<"fn", "fn">>}, args |-> {0}, sizes |-> ArgSizes]

\* one application thread and its validator, with faults of the frames' tails
InitFault ==
    /\ InitWith({1}, BOOLEAN, SamplingRates, {0}, MaxCallsFault, SizedWorkload)
    /\ InitKv({"orthrus"})
    /\ InitNet
    /\ InitKvc
    /\ InitIo
NextFault == \E t \in Threads : AppStep(t) \/ ValStep(t) \/ CorruptTail(t)
SpecFault == InitFault /\ [][NextFault]_vars

(***************************************************************************)
(* The key/value engine: hashmap_t of orthrus/closure.cpp and of           *)
(* sei/hashmap.cpp.                                                        *)
(***************************************************************************)
\* a uint32_t is kept as two halves of 16 bits, value hi * 2^16 + lo
Half == 65536
\* one round of Key::hash: hash = ((hash << 5) + hash) + ch[i] in uint32_t
HashRound(hash, c) ==
    LET lo == hash.lo * 33 + c
        hi == hash.hi * 33 + (lo \div Half)
    IN [hi |-> hi % Half, lo |-> lo % Half]

RECURSIVE HashFrom(_, _, _)
\* Key::hash from character i on
HashFrom(ch, i, hash) ==
    IF i > Len(ch) THEN hash
    ELSE HashFrom(ch, i + 1, HashRound(hash, Ascii[ch[i]]))

\* Key::hash, starting from 5381
KeyHash(key) == HashFrom(key, 1, [hi |-> 0, lo |-> 5381])

\* key.hash() % capacity
BucketOf(key) ==
    LET h == KeyHash(key) IN
    ((h.hi % HashCapacity) * (Half % HashCapacity) + h.lo) % HashCapacity

RECURSIVE FindFrom(_, _, _)
\* the walk along a bucket's chain: the first entry with the key, 0 if none
FindFrom(chain, i, key) ==
    IF i > Len(chain) THEN 0
    ELSE IF chain[i].key = key THEN i
    ELSE FindFrom(chain, i + 1, key)

\* faulty variant: the walk looks at the head of the chain only
HashmapGet_head_only(tbl, key) ==
    LET chain == tbl[BucketOf(key)] IN
    IF chain # <<>> /\ chain[1].key = key THEN chain[1].val ELSE NoVal

\* hashmap_t::get
HashmapGet(tbl, key) ==
    LET chain == tbl[BucketOf(key)]
        i == FindFrom(chain, 1, key)
    IN IF i = 0 THEN NoVal ELSE chain[i].val

\* faulty variant: a new entry is made without the walk
HashmapSet_always_new(tbl, key, val) ==
    [ret |-> "kCreated",
     table |-> [tbl EXCEPT ![BucketOf(key)] =
                   <<[key |-> key, val |-> val]>> \o @]]

\* hashmap_t::set: setv on the entry found, or a new entry at the head
HashmapSet(tbl, key, val) ==
    LET hv == BucketOf(key)
        i == FindFrom(tbl[hv], 1, key)
    IN IF i # 0
       THEN [ret |-> "kStored", table |-> [tbl EXCEPT ![hv][i].val = val]]
       ELSE [ret |-> "kCreated",
             table |-> [tbl EXCEPT ![hv] =
                           <<[key |-> key, val |-> val]>> \o @]]

\* faulty variant: the bucket is pointed at the successor of the entry found
HashmapDel_drop_before(tbl, key) ==
    LET hv == BucketOf(key)
        chain == tbl[hv]
        i == FindFrom(chain, 1, key)
    IN IF i # 0
       THEN [ret |-> "kDeleted",
             table |-> [tbl EXCEPT ![hv] = SubSeq(chain, i + 1, Len(chain))]]
       ELSE [ret |-> "kNotFound", table |-> tbl]

\* hashmap_t::del of sei/hashmap.cpp: the entry found is unlinked
HashmapDel(tbl, key) ==
    LET hv == BucketOf(key)
        chain == tbl[hv]
        i == FindFrom(chain, 1, key)
    IN IF i # 0
       THEN [ret |-> "kDeleted",
             table |-> [tbl EXCEPT ![hv] =
                           SubSeq(chain, 1, i - 1)
                               \o SubSeq(chain, i + 1, Len(chain))]]
       ELSE [ret |-> "kNotFound", table |-> tbl]

\* hashmap_t::del of orthrus/closure.cpp is std::abort()
DelAborts(e) == e = "orthrus"

\* hashmap_set(hmap, key, val)
KvSet ==
    /\ halted = ""
    /\ kv_ops < MaxOps
    /\ \E key \in Keys, val \in Vals :
         LET r == HashmapSet(table, key, val) IN
         /\ table' = r.table
         /\ kv_last' = [op |-> "set", key |-> key, val |-> val, ret |-> r.ret,
                        found |-> NoVal, present |-> kv_ref[key] # NoVal]
         /\ kv_ref' = [kv_ref EXCEPT ![key] = val]
    /\ kv_ops' = kv_ops + 1
    /\ UNCHANGED <<engine, halted, rtVars, extVars, netVars>>

\* hashmap_get(hmap, key)
KvGet ==
    /\ halted = ""
    /\ kv_ops < MaxOps
    /\ \E key \in Keys :
         kv_last' = [op |-> "get", key |-> key, val |-> NoVal, ret |-> "",
                     found |-> HashmapGet(table, key),
                     present |-> kv_ref[key] # NoVal]
    /\ kv_ops' = kv_ops + 1
    /\ UNCHANGED <<engine, table, halted, kv_ref, rtVars, extVars, netVars>>

\* hashmap_del(hmap, key)
KvDel ==
    /\ halted = ""
    /\ kv_ops < MaxOps
    /\ \E key \in Keys :
         IF DelAborts(engine)
         THEN /\ halted' = "abort"
              /\ kv_last' = [op |-> "del", key |-> key, val |-> NoVal,
                             ret |-> "", found |-> NoVal,
                             present |-> kv_ref[key] # NoVal]
              /\ UNCHANGED <<table, kv_ref>>
         ELSE LET r == HashmapDel(table, key) IN
              /\ table' = r.table
              /\ kv_last' = [op |-> "del", key |-> key, val |-> NoVal,
                             ret |-> r.ret, found |-> NoVal,
                             present |-> kv_ref[key] # NoVal]
              /\ kv_ref' = [kv_ref EXCEPT ![key] = NoVal]
              /\ UNCHANGED halted
    /\ kv_ops' = kv_ops + 1
    /\ UNCHANGED <<engine, rtVars, extVars, netVars>>

\* either engine under any sequence of operations
InitKV ==
    /\ InitWith({}, {FALSE}, {100}, {0}, 0, PlainWorkload)
    /\ InitKv(Engines)
    /\ InitNet
    /\ InitKvc
    /\ InitIo
NextKV == KvSet \/ KvGet \/ KvDel
SpecKV == InitKV /\ [][NextKV]_vars

(***************************************************************************)
(* sei/hashmap.cpp called by several group threads at once: every call     *)
(* takes the bucket's mutex (lock_guard_t), walks the chain, changes it    *)
(* and releases the mutex on return; the caller of get then copies the     *)
(* bytes behind the pointer it got (sei/server_dynamicNway.cpp).           *)
(***************************************************************************)
\* faulty variant: the mutex is taken whoever holds it
MutexFree_ignored(owner) == TRUE

\* pthread_mutex_lock returns once the mutex is free
MutexFree(owner) == owner = 0

\* malloc(sizeof(Val)): an address no live Val object has
NewCell == CHOOSE n \in 1..(Cardinality(DOMAIN cells) + 1) : n \notin DOMAIN cells

\* free(val_ptr)
FreeCell(h, ptr) == [x \in (DOMAIN h) \ {ptr} |-> h[x]]

\* what the bytes copied from a freed Val object may be
FreedBytes == <<"?", "?", "?", "?", "?", "?", "?", "?">>

\* a group thread's run() reaches hashmap_set, hashmap_get or hashmap_del
KvcBegin(t) ==
    /\ kvt[t].at = "idle"
    /\ kvc_ops < MaxOpsC
    /\ \E op \in {"set", "get", "del"}, key \in Keys, val \in Vals :
         /\ op # "set" => val = CHOOSE v \in Vals : TRUE
         /\ kvt' = [kvt EXCEPT ![t] =
                        [NoKvt EXCEPT !.at = "lock", !.op = op, !.key = key,
                                      !.val = IF op = "set" THEN val ELSE NoVal,
                                      !.hv = BucketOf(key)]]
    /\ kvc_ops' = kvc_ops + 1
    /\ UNCHANGED <<rtVars, kvVars, netVars, ioVars, rbv, ctable, cells, locks>>

\* lock_guard_t guard(&locks[hv])
KvcLock(t) ==
    /\ kvt[t].at = "lock"
    /\ MutexFree(locks[kvt[t].hv])
    /\ locks' = [locks EXCEPT ![kvt[t].hv] = t]
    /\ kvt' = [kvt EXCEPT ![t].at = "walk"]
    /\ UNCHANGED <<rtVars, kvVars, netVars, ioVars, rbv, ctable, cells, kvc_ops>>

\* the while loop over the chain: get returns getv() of the entry found or
\* nullptr, set and del go on with the entry found
KvcWalk(t) ==
    /\ kvt[t].at = "walk"
    /\ LET chain == ctable[kvt[t].hv]
           i == FindFrom(chain, 1, kvt[t].key)
       IN
       kvt' = [kvt EXCEPT
                 ![t].pos = i,
                 ![t].ptr = IF kvt[t].op = "get" /\ i # 0 THEN chain[i].val_ptr
                            ELSE NULL,
                 ![t].at = IF kvt[t].op = "get" THEN "unlock" ELSE "apply"]
    /\ UNCHANGED <<rtVars, kvVars, netVars, ioVars, rbv, ctable, cells, locks, kvc_ops>>

\* set: setv on the entry found (malloc, memcpy, free of the old Val) or a new
\* entry at the head; del: the entry found is unlinked and freed, its Val
\* object is not freed
KvcApply(t) ==
    /\ kvt[t].at = "apply"
    /\ LET hv == kvt[t].hv
           chain == ctable[hv]
           pos == kvt[t].pos
           there == pos # 0 /\ pos <= Len(chain)
       IN
       CASE kvt[t].op = "set" /\ there ->
              /\ cells' = FreeCell(Write(cells, NewCell, kvt[t].val),
                                   chain[pos].val_ptr)
              /\ ctable' = [ctable EXCEPT ![hv][pos].val_ptr = NewCell]
              /\ kvt' = [kvt EXCEPT ![t].ret = "kStored", ![t].at = "unlock"]
         [] kvt[t].op = "set" /\ ~there ->
              /\ cells' = Write(cells, NewCell, kvt[t].val)
              /\ ctable' = [ctable EXCEPT ![hv] =
                               <<[key |-> kvt[t].key, val_ptr |-> NewCell]>>
                                   \o @]
              /\ kvt' = [kvt EXCEPT ![t].ret = "kCreated", ![t].at = "unlock"]
         [] kvt[t].op = "del" /\ there ->
              /\ ctable' = [ctable EXCEPT ![hv] =
                               SubSeq(chain, 1, pos - 1)
                                   \o SubSeq(chain, pos + 1, Len(chain))]
              /\ kvt' = [kvt EXCEPT ![t].ret = "kDeleted", ![t].at = "unlock"]
              /\ UNCHANGED cells
         [] OTHER ->
              /\ kvt' = [kvt EXCEPT ![t].ret = "kNotFound", ![t].at = "unlock"]
              /\ UNCHANGED <<ctable, cells>>
    /\ UNCHANGED <<rtVars, kvVars, netVars, ioVars, rbv, locks, kvc_ops>>

\* the call returns: ~lock_guard_t unlocks the mutex; after get the caller
\* still has the bytes behind the pointer to copy
KvcUnlock(t) ==
    /\ kvt[t].at = "unlock"
    /\ locks' = [locks EXCEPT ![kvt[t].hv] = 0]
    /\ kvt' = [kvt EXCEPT ![t].at =
                   IF kvt[t].op = "get" /\ kvt[t].ptr # NULL THEN "copy"
                   ELSE "done"]
    /\ UNCHANGED <<rtVars, kvVars, netVars, ioVars, rbv, ctable, cells, kvc_ops>>

\* run(): memcpy(wt_buffer + prefix_len, val->ch, VAL_LEN); the bytes of a
\* freed object are whatever the heap holds there
KvcCopy(t) ==
    /\ kvt[t].at = "copy"
    /\ \E v \in (IF kvt[t].ptr \in DOMAIN cells THEN {cells[kvt[t].ptr]}
                  ELSE Vals \cup {FreedBytes}) :
         kvt' = [kvt EXCEPT ![t].out = v, ![t].at = "done",
                            ![t].dangling = kvt[t].ptr \notin DOMAIN cells]
    /\ UNCHANGED <<rtVars, kvVars, netVars, ioVars, rbv, ctable, cells, locks, kvc_ops>>

\* the response is written and run() goes on to the next request
KvcDone(t) ==
    /\ kvt[t].at = "done"
    /\ kvt' = [kvt EXCEPT ![t] = NoKvt]
    /\ UNCHANGED <<rtVars, kvVars, netVars, ioVars, rbv, ctable, cells, locks, kvc_ops>>

\* two group threads on the one table of the sei variant
InitKVC ==
    /\ InitWith({}, {FALSE}, {100}, {0}, 0, PlainWorkload)
    /\ InitKv({"sei"})
    /\ InitNet
    /\ InitKvc
    /\ InitIo
NextKVC ==
    \E t \in Threads :
        \/ KvcBegin(t)
        \/ KvcLock(t)
        \/ KvcWalk(t)
        \/ KvcApply(t)
        \/ KvcUnlock(t)
        \/ KvcCopy(t)
        \/ KvcDone(t)
SpecKVC == InitKVC /\ [][NextKVC]_vars

(***************************************************************************)
(* The server of the redundancy variant: fd_reader and consume_crc_prefix  *)
(* (comm.hpp), fd_worker::run and Start (orthrus/server.cpp).              *)
(***************************************************************************)
RECURSIVE IndexFrom(_, _, _)
\* memchr: the first position of ch at or after i, 0 if there is none
IndexFrom(buf, i, ch) ==
    IF i > Len(buf) THEN 0
    ELSE IF buf[i] = ch THEN i
    ELSE IndexFrom(buf, i + 1, ch)

\* the byte at packet + (i - 1); past what was received it is a stale byte
ByteAt(view, i) == IF i <= Len(view) THEN view[i] ELSE "?"
\* the n bytes at packet + (i - 1), as memcpy and memcmp take them
Bytes(view, i, n) == [j \in 1..n |-> ByteAt(view, i + j - 1)]

\* read_from_socket fails: read returned 0 or -1
ReadFails(sk) == sk = <<>>

\* fd_reader::read_packet on the pending bytes pend, with sk unread in the
\* socket, eof when the client has closed, and err the thread's errno
read_packet(pend, sk, eof, err) ==
    LET need == pend = <<>>
        p1 == IF need THEN sk ELSE pend
        s1 == IF need THEN <<>> ELSE sk
        end1 == IndexFrom(p1, 1, "\n")
        p2 == IF end1 = 0 THEN p1 \o s1 ELSE p1
        s2 == IF end1 = 0 THEN <<>> ELSE s1
        end2 == IndexFrom(p2, 1, "\n")
        \* read() at end of file leaves errno as it was, without data it is
        \* EAGAIN
        err1 == IF eof THEN err ELSE "EAGAIN"
    IN
    IF need /\ ReadFails(sk)
    THEN IF err1 = "0"
         THEN [out |-> "exit", packet |-> <<>>, pend |-> pend, sock |-> sk,
               errno |-> err1]
         ELSE [out |-> "none", packet |-> <<>>, pend |-> pend, sock |-> sk,
               errno |-> err1]
    ELSE IF end1 = 0 /\ ReadFails(s1)
    THEN [out |-> IF err1 = "EAGAIN" THEN "none" ELSE "abort",
          packet |-> <<>>, pend |-> p1, sock |-> s1, errno |-> err1]
    ELSE IF end2 = 0
    THEN [out |-> "none", packet |-> <<>>, pend |-> p2, sock |-> s2,
          errno |-> err]
    ELSE [out |-> "packet", packet |-> SubSeq(p2, 1, end2),
          pend |-> SubSeq(p2, end2 + 1, Len(p2)), sock |-> s2, errno |-> err]

\* ch - '0'
DigitVal(ch) == Ascii[ch] - 48

\* crc = crc * 10 + digit in uint64_t, kept as two halves; over is
\* crc > UINT32_MAX
CrcRound(crc, d) ==
    LET lo == crc.lo * 10 + d
        hi == crc.hi * 10 + (lo \div Half)
    IN [hi |-> hi, lo |-> lo % Half, over |-> hi >= Half]

RECURSIVE CrcDigits(_, _, _, _)
\* the loop of consume_crc_prefix over the bytes before hash_pos: FALSE when
\* a byte is no digit or the value passes UINT32_MAX
CrcDigits(packet, i, hash_pos, crc) ==
    IF i >= hash_pos THEN TRUE
    ELSE IF packet[i] \notin Digits THEN FALSE
    ELSE LET next == CrcRound(crc, DigitVal(packet[i])) IN
         IF next.over THEN FALSE
         ELSE CrcDigits(packet, i + 1, hash_pos, next)

\* faulty variant: the prefix is recognised and left in place
consume_crc_prefix_kept(packet) ==
    LET hash_pos == IndexFrom(packet, 1, "#") IN
    [ok |-> /\ packet # <<>>
            /\ packet[1] \in Digits
            /\ hash_pos # 0
            /\ CrcDigits(packet, 1, hash_pos, [hi |-> 0, lo |-> 0]),
     packet |-> packet]

\* consume_crc_prefix: whether a prefix was consumed, and the packet left
consume_crc_prefix(packet) ==
    LET hash_pos == IndexFrom(packet, 1, "#") IN
    IF packet = <<>> THEN [ok |-> FALSE, packet |-> packet]
    ELSE IF packet[1] \notin Digits THEN [ok |-> FALSE, packet |-> packet]
    ELSE IF hash_pos = 0 THEN [ok |-> FALSE, packet |-> packet]
    ELSE IF ~CrcDigits(packet, 1, hash_pos, [hi |-> 0, lo |-> 0])
    THEN [ok |-> FALSE, packet |-> packet]
    ELSE [ok |-> TRUE, packet |-> SubSeq(packet, hash_pos + 1, Len(packet))]

\* faulty variant: every first byte but 's' is taken for a get
Verb_get_by_default(view) ==
    IF Bytes(view, 1, 4) = <<"q", "u", "i", "t">> THEN "quit"
    ELSE IF ByteAt(view, 1) = "s" THEN "s"
    ELSE "g"

\* fd_worker::run: the quit test and the test of packet[0]
Verb(view) ==
    IF Bytes(view, 1, 4) = <<"q", "u", "i", "t">> THEN "quit"
    ELSE IF ByteAt(view, 1) \in {"s", "g", "d"} THEN ByteAt(view, 1)
    ELSE "other"

\* the body of run()'s loop after the prefix: what it does with the bytes at
\* packet, given the table; run2 returns what app_fn returns
Dispatch(tbl, eng, view) ==
    LET verb == Verb(view)
        key == Bytes(view, 4 + 1, KEY_LEN)
        val == Bytes(view, 4 + KEY_LEN + 1 + 1, VAL_LEN)
    IN
    CASE verb = "quit" -> [kind |-> "quit", resp |-> <<>>, table |-> tbl]
      [] verb = "s" ->
           LET r == HashmapSet(tbl, key, val) IN
           [kind |-> "resp", resp |-> kRetVals[r.ret], table |-> r.table]
      [] verb = "g" ->
           LET v == HashmapGet(tbl, key) IN
           [kind |-> "resp",
            resp |-> IF v # NoVal THEN kRetVals.kValue \o v \o kCrlf
                     ELSE kRetVals.kNotFound,
            table |-> tbl]
      [] verb = "d" ->
           IF DelAborts(eng)
           THEN [kind |-> "abort", resp |-> <<>>, table |-> tbl]
           ELSE LET r == HashmapDel(tbl, key) IN
                [kind |-> "resp", resp |-> kRetVals[r.ret], table |-> r.table]
      [] OTHER -> [kind |-> "resp", resp |-> kRetVals.kError, table |-> tbl]

\* lines sent so far on all connections
NrSent == Len(sent[1]) + Len(sent[2])
\* the descriptor is registered with epoll
Polled(c) == c \in fd_open

\* a client connects: the listening socket becomes readable
ClientConnect(c) ==
    /\ halted = ""
    /\ client[c] = "idle"
    /\ client' = [client EXCEPT ![c] = "connected"]
    /\ backlog' = backlog \cup {c}
    /\ ready' = ready \cup {[fd |-> LISTEN, state |-> "EPOLLIN"]}
    /\ UNCHANGED <<kvVars, rtVars, extVars, req_lines, fd_open, workers, sock, rd, wire_out, srv_pc,
                   errno, sent, dispatched, srv_last>>

\* a client sends one request line
ClientSend(c) ==
    /\ halted = ""
    /\ client[c] = "connected"
    /\ NrSent < MaxRequests
    /\ \E line \in (IF c = 1 THEN req_lines ELSE FewLines) :
         /\ sock' = [sock EXCEPT ![c] = @ \o line]
         /\ sent' = [sent EXCEPT ![c] = Append(@, line)]
    /\ ready' = IF Polled(c)
                THEN ready \cup {[fd |-> c, state |-> "EPOLLIN"]}
                ELSE ready
    /\ UNCHANGED <<kvVars, rtVars, extVars, req_lines, client, fd_open, workers, rd, wire_out,
                   srv_pc, errno, dispatched, srv_last, backlog>>

\* a client closes its end: the server's descriptor reports end of file
\* (EPOLLIN) or, with nothing left to read, a hang-up alone
ClientClose(c) ==
    /\ halted = ""
    /\ client[c] = "connected"
    /\ client' = [client EXCEPT ![c] = "closed"]
    /\ \E state \in {"EPOLLIN", "EPOLLHUP"} :
         /\ state = "EPOLLHUP" => sock[c] = <<>>
         /\ ready' = IF Polled(c)
                     THEN ready \cup {[fd |-> c, state |-> state]}
                     ELSE ready
    /\ UNCHANGED <<kvVars, rtVars, extVars, req_lines, fd_open, workers, sock, rd, wire_out, srv_pc,
                   errno, sent, dispatched, srv_last, backlog>>

\* Start, fd == listen_fd: accept until EAGAIN, epoll_init and a worker for
\* each connection
Accept ==
    /\ halted = ""
    /\ srv_pc.at = "epoll"
    /\ [fd |-> LISTEN, state |-> "EPOLLIN"] \in ready
    /\ LET new == backlog
           \* a descriptor added with bytes or end of file pending is
           \* reported at once
           pending == {c \in new : sock[c] # <<>> \/ client[c] = "closed"}
       IN
       /\ fd_open' = fd_open \cup new
       /\ backlog' = {}
       /\ workers' = workers \cup new
       /\ ready' = (ready \ {[fd |-> LISTEN, state |-> "EPOLLIN"]})
                       \cup {[fd |-> c, state |-> "EPOLLIN"] : c \in pending}
    /\ errno' = "EAGAIN"
    /\ UNCHANGED <<kvVars, rtVars, extVars, req_lines, client, sock, rd, wire_out, srv_pc, sent,
                   dispatched, srv_last>>

\* Start, (state & (EPOLLERR | EPOLLHUP)) && !(state & EPOLLIN): close(fd) and
\* workers.erase(fd)
HandleHup(c) ==
    /\ halted = ""
    /\ srv_pc.at = "epoll"
    /\ [fd |-> c, state |-> "EPOLLHUP"] \in ready
    /\ fd_open' = fd_open \ {c}
    /\ workers' = workers \ {c}
    /\ ready' = {e \in ready : e.fd # c}
    /\ UNCHANGED <<kvVars, rtVars, extVars, req_lines, client, sock, rd, wire_out, srv_pc, errno,
                   sent, dispatched, srv_last, backlog>>

\* Start, otherwise: workers[fd]->run() is entered
StartRun(c) ==
    /\ halted = ""
    /\ srv_pc.at = "epoll"
    /\ [fd |-> c, state |-> "EPOLLIN"] \in ready
    /\ c \in workers
    /\ ready' = ready \ {[fd |-> c, state |-> "EPOLLIN"]}
    /\ srv_pc' = [at |-> "run", fd |-> c]
    /\ UNCHANGED <<kvVars, rtVars, extVars, req_lines, client, fd_open, workers, sock, rd, wire_out,
                   errno, sent, dispatched, srv_last, backlog>>

\* one round of the loop of fd_worker::run: read_packet, consume_crc_prefix,
\* the quit test, the dispatch on packet[0] through run2, write_all
RunStep(c) ==
    /\ halted = ""
    /\ srv_pc = [at |-> "run", fd |-> c]
    /\ LET r == read_packet(rd[c], sock[c], client[c] = "closed", errno)
           crc == consume_crc_prefix(r.packet)
           d == Dispatch(table, engine, crc.packet \o r.pend)
           seen == [nr |-> srv_last.nr + 1, conn |-> c, raw |-> r.packet,
                    body |-> crc.packet,
                    prefixed |-> crc.ok, verb |-> Verb(crc.packet \o r.pend),
                    kind |-> d.kind, resp |-> d.resp]
       IN
       /\ rd' = [rd EXCEPT ![c] = r.pend]
       /\ sock' = [sock EXCEPT ![c] = r.sock]
       /\ errno' = r.errno
       /\ CASE r.out = "exit" ->
                 \* exit(0): the whole process ends
                 /\ halted' = "exit"
                 /\ UNCHANGED <<table, wire_out, dispatched, srv_last, srv_pc,
                                workers>>
            [] r.out = "abort" ->
                 /\ halted' = "abort"
                 /\ UNCHANGED <<table, wire_out, dispatched, srv_last, srv_pc,
                                workers>>
            [] r.out = "none" ->
                 \* run() returns false: back to epoll_wait
                 /\ srv_pc' = [at |-> "epoll", fd |-> LISTEN]
                 /\ UNCHANGED <<table, wire_out, dispatched, srv_last, halted,
                                workers>>
            [] r.out = "packet" /\ d.kind = "quit" ->
                 \* run() returns true and Start returns: the map workers is
                 \* destroyed, no descriptor is closed
                 /\ halted' = "returned"
                 /\ workers' = {}
                 /\ srv_last' = seen
                 /\ UNCHANGED <<table, wire_out, dispatched, srv_pc>>
            [] r.out = "packet" /\ d.kind = "abort" ->
                 /\ halted' = "abort"
                 /\ dispatched' = [dispatched EXCEPT ![c] = Append(@, r.packet)]
                 /\ srv_last' = seen
                 /\ UNCHANGED <<table, wire_out, srv_pc, workers>>
            [] r.out = "packet" /\ d.kind = "resp" ->
                 /\ table' = d.table
                 /\ wire_out' = [wire_out EXCEPT ![c] = Append(@, d.resp)]
                 /\ dispatched' = [dispatched EXCEPT ![c] = Append(@, r.packet)]
                 /\ srv_last' = seen
                 /\ UNCHANGED <<halted, srv_pc, workers>>
    /\ UNCHANGED <<engine, kv_ops, kv_last, kv_ref, rtVars, extVars, req_lines, client, fd_open,
                   ready, sent, backlog>>

\* one server group with two connections
InitServer ==
    /\ InitWith({}, {FALSE}, {100}, {0}, 0, PlainWorkload)
    /\ InitKv({"orthrus"})
    /\ InitNet
    /\ InitKvc
    /\ InitIo
NextServer ==
    \/ \E c \in Conns : ClientConnect(c) \/ ClientSend(c) \/ ClientClose(c)
    \/ Accept
    \/ \E c \in Conns : HandleHup(c) \/ StartRun(c) \/ RunStep(c)
SpecServer == InitServer /\ [][NextServer]_vars

\* the same group when a client's set carries an LF among its value bytes
InitLf ==
    /\ InitWith({}, {FALSE}, {100}, {0}, 0, PlainWorkload)
    /\ InitKv({"orthrus"})
    /\ InitNetWith({LineSetLf, LineGet})
    /\ InitKvc
    /\ InitIo
SpecLf == InitLf /\ [][NextServer]_vars

(***************************************************************************)
(* Properties.                                                             *)
(***************************************************************************)
Active == {t \in Threads : app_pc[t] # "off"}
\* positions at which the validator holds a dequeued frame it has not yet
\* counted as reclaimed
HoldsFrame(t) ==
    val_pc[t] \in {"validate_one", "gate_load", "gate_wait", "gate_cas",
                   "gate_fetch_add", "validate", "close", "reclaim",
                   "reclaim_notify", "reclaim_count"}
\* positions after the comparison of Closure::validate has passed
PastCompare(t) ==
    /\ val_pc[t] \in {"close", "reclaim", "reclaim_notify", "reclaim_count"}
    /\ vl[t].path = "validate"
FrameInfo(log) ==
    IF log \in DOMAIN frame_info THEN frame_info[log]
    ELSE [thread |-> 0, id |-> 0, app_fn |-> "", val_fn |-> "", args |-> 0,
          ret |-> 0, seq |-> 0, validated |-> FALSE]

\* C1: a frame that the validator validates is re-executed with val_fn on the
\* argument tuple run2 was called with and the result is compared with the
\* value app_fn returned: the frame goes on to be reclaimed only if the two
\* are equal, and the process aborts in validator_assert only if they differ.
C1_ValidatedFramesAgree ==
    \A t \in Active :
        LET f == FrameInfo(vl[t].log) IN
        /\ PastCompare(t) =>
              /\ f.thread = t
              /\ f.validated
              /\ Apply(f.val_fn, f.args) = f.ret
        /\ (val_pc[t] = "validate" /\ ~aborted) => ~f.validated
        /\ (aborted /\ vl[t].path = "validator_assert") =>
              /\ val_pc[t] = "validate"
              /\ Apply(f.val_fn, f.args) # f.ret

\* C1 witness: one frame has passed validation and a later one, whose app_fn
\* returned another value than val_fn, has aborted the process
C1_Witness ==
    /\ aborted
    /\ vl[1].path = "validator_assert"
    /\ stats[1].validated >= 1
    /\ FrameInfo(vl[1].log).app_fn = "fn_perturbed"

\* C2: in synchronous mode run2 reaches its return only after the validator
\* has validated the call's frame and stored 1 into the call's ticket.
C2_SyncReturnAfterValidation ==
    sync_validate =>
        \A t \in Active :
            /\ app_pc[t] = "return" =>
                  /\ ticket[t].val = 1
                  /\ stats[t].validated = ncalls[t]
            /\ stats[t].returned <= stats[t].validated

\* C2 witness: a synchronous run2 call is about to return
C2_Witness ==
    /\ sync_validate
    /\ app_pc[1] = "return"
    /\ ncalls[1] = 2

\* C3: in synchronous mode no dequeued frame takes the skip path, whatever
\* the sampling rate.
C3_SyncNeverSkips ==
    sync_validate =>
        \A t \in Active :
            /\ stats[t].skipped = 0
            /\ vl[t].path # "skip"
            /\ val_pc[t] \in {"reclaim", "reclaim_notify", "reclaim_count"}
                  => FrameInfo(vl[t].log).validated

\* C3 witness: synchronous mode with a sampling rate below 100 has validated
\* two frames
C3_Witness ==
    /\ sync_validate
    /\ sampling_rate < 100
    /\ stats[1].validated = 2
    /\ val_pc[1] = "reclaim"

AsyncFull == ~sync_validate /\ sampling_rate = 100 /\ max_validation_core = 0

\* C4 (as claimed): without SCEE_SYNC_VALIDATE, with sampling rate 100 and no
\* cap, once a call whose app_fn diverges from val_fn has committed its frame
\* the process aborts (the thread never finishes unaborted), and at most
\* LOG_QUEUE_CAPACITY later run2 calls return before that.
C4_DivergenceAborts ==
    AsyncFull =>
        \A t \in Active :
            stats[t].first_div > 0 =>
                /\ app_pc[t] # "done"
                /\ stats[t].returned - stats[t].first_div <= LOG_QUEUE_CAPACITY

\* the bound of C4 alone
C4_BoundOnly ==
    AsyncFull =>
        \A t \in Active :
            stats[t].first_div > 0 =>
                stats[t].returned - stats[t].first_div <= LOG_QUEUE_CAPACITY

\* C5: the k-th frame a validator dequeues is the k-th frame its application
\* thread committed, so frames are handled in commit order and none twice.
C5_DequeueInCommitOrder ==
    \A t \in Active :
        /\ stats[t].dequeued <= stats[t].committed
        /\ HoldsFrame(t) =>
              /\ FrameInfo(vl[t].log).thread = t
              /\ FrameInfo(vl[t].log).seq = stats[t].dequeued

\* C5 witness: the second frame is dequeued while a third waits in the ring
C5_Witness ==
    /\ val_pc[1] = "validate_one"
    /\ stats[1].dequeued = 2
    /\ head_[1] - tail_[1] = 1

\* C6 (as claimed): once the thread has joined its validator, every frame it
\* committed has been dequeued.
C6_NoFrameLost ==
    \A t \in Active :
        app_pc[t] = "done" => stats[t].dequeued = stats[t].committed

\* head_ - tail_ of the thread's ring
RingSize(t) == head_[t] - tail_[t]

\* what one step may do to the ring of thread t
RingStep(t) ==
    /\ head_'[t] # head_[t] =>
          /\ LogEnqueue(t)
          /\ RingSize(t) < LOG_QUEUE_CAPACITY
          /\ head_'[t] = head_[t] + 1
    /\ tail_'[t] # tail_[t] =>
          /\ ValDequeue(t)
          /\ RingSize(t) > 0
          /\ tail_'[t] = tail_[t] + 1
    /\ buffer_'[t] # buffer_[t] => head_'[t] # head_[t]
    /\ (LogEnqueue(t) /\ RingSize(t) = LOG_QUEUE_CAPACITY) =>
          /\ ~push_ret'[t]
          /\ UNCHANGED <<head_, tail_, buffer_>>
    /\ (LogEnqueue(t) /\ RingSize(t) < LOG_QUEUE_CAPACITY) => push_ret'[t]
    /\ (ValDequeue(t) /\ RingSize(t) = 0) =>
          /\ UNCHANGED <<head_, tail_, buffer_, vl, stats>>

\* C7: 0 <= head - tail <= Capacity always; head moves only in the producer's
\* push and tail only in the validator's pop, each by one; a push on a full
\* ring returns false and a pop on an empty ring fails, both changing nothing
\* of the ring.
C7_RingInvariant ==
    /\ [](\A t \in Threads :
            0 <= RingSize(t) /\ RingSize(t) <= LOG_QUEUE_CAPACITY)
    /\ [][\A t \in Threads : RingStep(t)]_vars

\* C7 witness: the ring is full and the producer's push has just failed
C7_Witness ==
    /\ RingSize(1) = LOG_QUEUE_CAPACITY
    /\ app_pc[1] = "enqueue"
    /\ ~push_ret[1]

\* the addresses of slab b
InSlab(b, a) == b <= a /\ a < b + MAX_LOG_BUFFER_SIZE

\* slab b is in the state in which reclaim_log may release it
Releasable(b) ==
    /\ buffer_head[b].in_use = 0
    /\ buffer_head[b].nr_reclaimed = buffer_head[b].nr_logs
    \* no producer holds a cursor into it or is writing a frame in it
    /\ \A u \in Threads :
          /\ \A i \in 1..Len(buffers[u]) : ~InSlab(b, buffers[u][i])
          /\ app_pc[u] \in {"run_app", "commit", "commit_cursor", "enqueue"}
                => ~InSlab(b, current_log[u].head)
    \* no frame of it is committed and unreclaimed
    /\ \A a \in DOMAIN frame_info : ~InSlab(b, a)
    /\ \A u \in Threads : \A i \in tail_[u]..(head_[u] - 1) :
          ~InSlab(b, buffer_[u][MaskLow(i, LOG_QUEUE_CAPACITY)])

\* C8: a slab is pushed onto the free list, and stays on it, only with
\* in_use = 0 and nr_reclaimed = nr_logs, no producer cursor into it and no
\* unreclaimed frame in it.
C8_ReleaseOnlyWhenDone ==
    /\ \A t \in Threads :
          val_pc[t] = "reclaim_free" =>
              Releasable(get_log_buffer_head(vl[t].log))
    /\ \A i \in 1..Len(free_buffers) : Releasable(free_buffers[i])

\* C8 witness: a validator is about to push a slab onto the free list
C8_Witness ==
    /\ val_pc[1] = "reclaim_free"
    /\ buffer_head[get_log_buffer_head(vl[1].log)].nr_logs >= 3

\* the slab the application thread t is committing into
CurrentSlab(t) == get_log_buffer_head(current_log[t].head)
\* offset in its slab of the frame that would follow the current one
NextOffset(t) ==
    current_log[t].head + AlignSizeToCacheline(mem[current_log[t].head].length)
        - CurrentSlab(t)
InUse(h, b) == IF b \in DOMAIN h THEN h[b].in_use ELSE 0

\* what one step may do to in_use of slab b
InUseStep(b) ==
    \* cleared only by the producer's commit that leaves less than one frame
    /\ (InUse(buffer_head, b) = 1 /\ InUse(buffer_head', b) = 0) =>
          \E t \in Threads :
              /\ CommitCursor(t)
              /\ CurrentSlab(t) = b
              /\ NextOffset(t) > MAX_LOG_BUFFER_SIZE - MIN_LOG_BUFFER_SIZE
    \* set only by the acquisition of the slab from the arena
    /\ (InUse(buffer_head, b) = 0 /\ InUse(buffer_head', b) = 1) =>
          /\ acquired' = acquired + 1
          /\ b = allocate_log_buffer_result
          /\ \E t \in Threads : Run2NewLog(t) /\ buffers[t] = <<>>

\* what a commit or an acquisition by thread t does to in_use
InUseOfThread(t) ==
    /\ CommitCursor(t) =>
          IF NextOffset(t) > MAX_LOG_BUFFER_SIZE - MIN_LOG_BUFFER_SIZE
          THEN /\ buffer_head[CurrentSlab(t)].in_use = 1
               /\ buffer_head'[CurrentSlab(t)].in_use = 0
          ELSE /\ buffer_head'[CurrentSlab(t)].in_use = 1
               /\ buffers'[t] # <<>>
    /\ (Run2NewLog(t) /\ buffers[t] = <<>>) =>
          buffer_head'[allocate_log_buffer_result].in_use = 1

\* C9: in_use of a slab becomes 1 when the producer acquires the slab, is
\* cleared once, by the producer's commit after which the next frame offset
\* exceeds MAX_LOG_BUFFER_SIZE - MIN_LOG_BUFFER_SIZE, and becomes 1 again
\* only by the next acquisition from the arena.
C9_InUseLifecycle ==
    [][/\ \A b \in DOMAIN buffer_head' : InUseStep(b)
       /\ \A t \in Threads : InUseOfThread(t)]_vars

\* C9 witness: the commit of the third frame of a slab has just cleared the
\* slab's in_use
C9_Witness ==
    /\ app_pc[1] = "enqueue"
    /\ buffer_head[CurrentSlab(1)].in_use = 0
    /\ buffer_head[CurrentSlab(1)].nr_logs = 3

\* C10 (as claimed): once every application thread has stopped and joined
\* its validator, every slab acquired from the arena is back on the free list.
C10_AllSlabsReleased ==
    (Active # {} /\ \A t \in Active : app_pc[t] = "done")
        => acquired = released

\* positions at which the path of the dequeued frame is not yet settled: the
\* sampling, the gate, or the comparison is still ahead
PathOpen(t) ==
    val_pc[t] \in {"validate_one", "gate_load", "gate_wait", "gate_cas",
                   "gate_fetch_add", "validate"}
\* positions inside reclaim_log before the count
InReclaim(t) == val_pc[t] \in {"reclaim", "reclaim_notify", "reclaim_count"}
NrReclaimed(h, b) == IF b \in DOMAIN h THEN h[b].nr_reclaimed ELSE 0

\* what one step may do to nr_reclaimed of slab b
NrReclaimedStep(b) ==
    NrReclaimed(buffer_head', b) # NrReclaimed(buffer_head, b) =>
        \/ \E t \in Threads :
              /\ ReclaimCount(t)
              /\ b = get_log_buffer_head(vl[t].log)
              /\ NrReclaimed(buffer_head', b) = NrReclaimed(buffer_head, b) + 1
        \/ /\ NrReclaimed(buffer_head', b) = 0
           /\ acquired' = acquired + 1
           /\ b = allocate_log_buffer_result

\* C11: every dequeued frame is reclaimed once and by one path: the frames
\* reclaimed are the frames dequeued but for the one in hand, each is counted
\* either as validated or as skipped, a frame inside reclaim_log came there
\* through close after a passed comparison or unvalidated through the skip
\* path, and nr_reclaimed of a slab moves only by 1 in reclaim_log's fetch_add
\* (and to 0 when the slab is acquired again).
C11_ReclaimedOnceByOnePath ==
    /\ [](\A t \in Active :
            /\ stats[t].reclaimed =
                  stats[t].dequeued - (IF HoldsFrame(t) THEN 1 ELSE 0)
            /\ stats[t].validated + stats[t].skipped =
                  stats[t].dequeued - (IF PathOpen(t) THEN 1 ELSE 0)
            /\ InReclaim(t) =>
                  \/ /\ vl[t].path = "validate"
                     /\ FrameInfo(vl[t].log).validated
                     /\ vl[t].cursor = vl[t].log + mem[vl[t].log].length
                  \/ /\ vl[t].path = "skip"
                     /\ ~FrameInfo(vl[t].log).validated)
    /\ [][\A b \in DOMAIN buffer_head' : NrReclaimedStep(b)]_vars

\* C11 witness: one frame was reclaimed through validation and one through
\* the skip path
C11_Witness ==
    /\ stats[1].validated = 1
    /\ stats[1].skipped = 1
    /\ stats[1].reclaimed = 2

\* the validator is inside the lambda validate of validate_one
InValidation(t) ==
    /\ val_pc[t] \in {"validate", "close", "reclaim", "reclaim_notify",
                      "reclaim_count", "reclaim_in_use", "reclaim_cmp",
                      "reclaim_free"}
    /\ vl[t].path # "skip"

\* C12: with a cap, at most max_validation_core validators are inside a
\* frame's validation at once, with and without SCEE_SYNC_VALIDATE.
C12_GateBoundsValidators ==
    max_validation_core # 0 =>
        Cardinality({t \in Threads : InValidation(t)}) <= max_validation_core

\* C12 witness, synchronous: one validator validates while the other waits at
\* the gate
C12_Witness ==
    /\ sync_validate
    /\ InValidation(1)
    /\ val_pc[2] = "gate_wait"

\* C13: whatever was set, read and (where the engine has it) deleted, a GET
\* of a key finds the value of the latest SET of the key that no DEL of the
\* key followed, and finds nothing when there is none; the last GET
\* returned just that.
C13_GetReturnsLatestSet ==
    /\ \A k \in Keys : HashmapGet(table, k) = kv_ref[k]
    /\ kv_last.op = "get" => kv_last.found = kv_ref[kv_last.key]

\* C13 witness: a GET found the second value set for the key that sits
\* behind another key in its chain
C13_Witness ==
    /\ kv_last.op = "get"
    /\ kv_last.found = <<"1", "2", "3", "4", "5", "6", "7", "8">>
    /\ Len(table[BucketOf(kv_last.key)]) >= 2
    /\ table[BucketOf(kv_last.key)][2].key = kv_last.key
    /\ kv_ops = MaxOps

\* C14: SET returns CREATED exactly when the key had no entry at the call
\* and STORED exactly when it had one.
C14_SetCreatedOrStored ==
    kv_last.op = "set" =>
        kv_last.ret = IF kv_last.present THEN "kStored" ELSE "kCreated"

\* C14 witness: a SET of a key set before returned STORED
C14_Witness ==
    /\ kv_last.op = "set"
    /\ kv_last.ret = "kStored"
    /\ kv_ops = 2

\* what a DEL of the sei engine does to the table
DelStep ==
    (KvDel /\ engine = "sei") =>
        LET k == kv_last'.key IN
        /\ kv_last'.ret = IF HashmapGet(table, k) # NoVal THEN "kDeleted"
                          ELSE "kNotFound"
        /\ HashmapGet(table', k) = NoVal
        /\ HashmapGet(table, k) = NoVal => table' = table
        /\ \A o \in Keys \ {k} : HashmapGet(table', o) = HashmapGet(table, o)
        /\ HashmapDel(table', k).ret = "kNotFound"

\* C15: in the sei engine DEL of a present key returns DELETED and removes
\* the entry, DEL of an absent key returns NOT_FOUND and leaves the table as
\* it was; after either, a DEL or a GET of the key finds nothing, and every
\* other key keeps its value.
C15_DelRemovesOnlyTheKey == [][DelStep]_vars

\* C15 witness: a DEL returned DELETED for a key whose chain held another key
C15_Witness ==
    /\ engine = "sei"
    /\ kv_last.op = "del"
    /\ kv_last.ret = "kDeleted"
    /\ table[BucketOf(kv_last.key)] # <<>>

\* C16: in the redundancy variant a dispatched `del <key>` is answered
\* DELETED\r\n or NOT_FOUND\r\n and the server keeps running.
C16_DelAnsweredServerRuns ==
    srv_last.verb = "d" =>
        /\ srv_last.kind = "resp"
        /\ srv_last.resp \in {kRetVals.kDeleted, kRetVals.kNotFound}
        /\ halted # "abort"

\* the response is one that run() writes for the request line
RespFits(line, resp) ==
    LET verb == Verb(consume_crc_prefix(line).packet) IN
    CASE verb = "s" -> resp \in {kRetVals.kStored, kRetVals.kCreated}
      [] verb = "g" ->
           \/ resp = kRetVals.kNotFound
           \/ \E v \in Vals : resp = kRetVals.kValue \o v \o kCrlf
      [] verb = "d" -> resp \in {kRetVals.kDeleted, kRetVals.kNotFound}
      [] verb = "other" -> resp = kRetVals.kError
      [] OTHER -> FALSE

\* C17: on a single connection the server writes exactly one response per
\* dispatched request, and the responses are written in the order in which
\* the requests arrived.
C17_OneResponsePerRequestInOrder ==
    \A c \in Conns :
        /\ Len(dispatched[c]) <= Len(sent[c])
        /\ dispatched[c] = SubSeq(sent[c], 1, Len(dispatched[c]))
        /\ Len(wire_out[c]) = Len(dispatched[c])
        /\ \A i \in 1..Len(wire_out[c]) :
              RespFits(dispatched[c][i], wire_out[c][i])

\* the body's first byte is none of 's', 'g', 'd' and the body does not begin
\* with quit
UnknownVerb(body) ==
    /\ body # <<>>
    /\ body[1] \notin {"s", "g", "d"}
    /\ Bytes(body, 1, 4) # <<"q", "u", "i", "t">>

\* what run() does with a request of an unknown verb on connection c
ErrorStep(c) ==
    (/\ Len(dispatched'[c]) = Len(dispatched[c]) + 1
     /\ UnknownVerb(srv_last'.body)) =>
        /\ wire_out'[c] = Append(wire_out[c], kRetVals.kError)
        /\ table' = table
        /\ c \in fd_open' /\ c \in workers'
        /\ halted' = ""
        /\ srv_pc' = [at |-> "run", fd |-> c]

\* C18: a request whose first body byte is not 's', 'g' or 'd' and whose body
\* does not begin with quit is answered ERROR\r\n, leaves the key/value table
\* unchanged and leaves the connection open, its worker still in the loop
\* that serves the connection's later requests.
C18_UnknownVerbError == [][\A c \in Conns : ErrorStep(c)]_vars

\* C18 witness: a connection got ERROR for its first request and CREATED for
\* its second
C18_Witness ==
    \E c \in Conns :
        /\ wire_out[c] = <<kRetVals.kError, kRetVals.kCreated>>
        /\ UnknownVerb(consume_crc_prefix(dispatched[c][1]).packet)

\* UINT32_MAX in decimal
U32MaxDigits == <<"4", "2", "9", "4", "9", "6", "7", "2", "9", "5">>

RECURSIVE LexLeq(_, _, _)
\* digit strings of one length: a is at most b from position i on
LexLeq(a, b, i) ==
    IF i > Len(a) THEN TRUE
    ELSE IF Ascii[a[i]] < Ascii[b[i]] THEN TRUE
    ELSE IF Ascii[a[i]] > Ascii[b[i]] THEN FALSE
    ELSE LexLeq(a, b, i + 1)

\* the line starts with the decimal digits of a 32-bit unsigned number and a '#'
WellFormedPrefix(line) ==
    \E h \in 2..Len(line) :
        /\ line[h] = "#"
        /\ \A i \in 1..(h - 1) : line[i] \in Digits
        /\ \/ h - 1 < Len(U32MaxDigits)
           \/ /\ h - 1 = Len(U32MaxDigits)
              /\ LexLeq(SubSeq(line, 1, h - 1), U32MaxDigits, 1)

\* the same line without its prefix
Unprefixed(line) ==
    LET h == CHOOSE h \in 1..Len(line) :
                 line[h] = "#" /\ \A i \in 1..(h - 1) : line[i] # "#"
    IN SubSeq(line, h + 1, Len(line))

\* what run() does with a packet that carries a well-formed prefix
PrefixStep ==
    (srv_last'.nr # srv_last.nr /\ WellFormedPrefix(srv_last'.raw)) =>
        LET c == srv_last'.conn
            plain == Unprefixed(srv_last'.raw)
            d == Dispatch(table, engine, plain \o rd'[c])
        IN
        /\ srv_last'.body = plain
        /\ srv_last'.kind = d.kind
        /\ srv_last'.resp = d.resp
        /\ d.kind = "resp" =>
              /\ table' = d.table
              /\ wire_out'[c] = Append(wire_out[c], d.resp)
        /\ d.kind = "quit" => halted' = "returned"
        /\ d.kind = "abort" => halted' = "abort"

\* C19: a request line with a well-formed <decimal-u32># prefix is dispatched
\* exactly as the same line without the prefix: the prefix is stripped before
\* the quit check and the verb dispatch, and no value of it makes the request
\* rejected.
C19_PrefixStripped == [][PrefixStep]_vars

\* C19 witness: 123456789#set abcd 12345678 was answered CREATED and the
\* table holds the value under abcd
C19_Witness ==
    /\ srv_last.raw = LineCrcSet
    /\ srv_last.resp = kRetVals.kCreated
    /\ HashmapGet(table, <<"a", "b", "c", "d">>) =
           <<"1", "2", "3", "4", "5", "6", "7", "8">>

\* C20: receipt of quit on a connection closes that connection and erases
\* its entry of the worker map; the other connections of the group remain
\* open and continue to be served.
C20_QuitClosesOnlyItsConnection ==
    srv_last.kind = "quit" =>
        /\ srv_last.conn \notin fd_open
        /\ srv_last.conn \notin workers
        /\ \A o \in Conns \ {srv_last.conn} : o \in fd_open => o \in workers
        /\ halted = ""

\* run() on connection c ends a round in which read returned 0: the client
\* has closed and nothing is left in the socket or in rd_buffer
ReadZeroStep(c) ==
    /\ srv_pc = [at |-> "run", fd |-> c]
    /\ client[c] = "closed" /\ sock[c] = <<>> /\ rd[c] = <<>>
    /\ srv_pc' # srv_pc \/ halted' # halted

\* C21: when read on a client fd returns 0 (peer closed) or fails with an
\* error other than EAGAIN/EWOULDBLOCK, the server closes that connection and
\* drops its worker, and the process keeps serving its other connections.
C21_ReadZeroClosesConnection ==
    [][\A c \in Conns :
          ReadZeroStep(c) =>
              /\ c \notin fd_open'
              /\ c \notin workers'
              /\ halted' = ""]_vars

\* C22: a frame whose tail magic is not MAGIC, or whose recorded length
\* differs from the distance from its head to the end of its tail, is never
\* reclaimed, on whichever path the validator handles it.
C22_BadTailNeverReclaimed ==
    \A t \in Active : InReclaim(t) => ~BadTail(mem, vl[t].log)

\* the validator is past the tail checks of close for the frame in hand
PastClose(t) ==
    /\ val_pc[t] \in {"reclaim", "reclaim_notify", "reclaim_count"}
    /\ vl[t].path = "validate"

\* C23: for every frame the validator processes, the tail's magic and length
\* are checked before the recorded closure is re-executed or its return value
\* compared: a frame in hand that was re-executed and compared has passed the
\* tail checks.
C23_TailCheckedBeforeContents ==
    \A t \in Active :
        (HoldsFrame(t) /\ FrameInfo(vl[t].log).validated) => PastClose(t)

\* the step advances the slab cursor of thread t (the next frame's address is
\* pushed onto buffers) or clears in_use of the slab of its current frame
SlabBookkeeping(t) ==
    LET buffer == get_log_buffer_head(current_log[t].head) IN
    \/ Len(buffers'[t]) > Len(buffers[t])
    \/ /\ buffer \in DOMAIN buffer_head
       /\ buffer_head[buffer].in_use = 1
       /\ buffer_head'[buffer].in_use = 0

\* the current frame of thread t has been pushed onto the ring
Published(t) == FrameInfo(current_log[t].head).seq # 0

\* C24: commit publishes the frame pointer on the ring before it advances the
\* slab cursor or clears the slab's in_use: when the slab bookkeeping is done
\* the frame is already on the ring.
C24_PublishBeforeBookkeeping ==
    [][\A t \in Active : SlabBookkeeping(t) => Published(t)]_vars

\* C25: within every bucket no two chain nodes carry equal keys, whatever
\* SET, GET and DEL calls the group threads interleave.
C25_NoEqualKeysInBucket ==
    \A b \in DOMAIN ctable :
        \A i, j \in 1..Len(ctable[b]) :
            i # j => ctable[b][i].key # ctable[b][j].key

\* C25 witness: a SET of a key waits for the mutex while the other thread, in
\* a SET of the same key, is about to put the key's first entry behind
\* another key's
C25_Witness ==
    /\ kvt[1].at = "lock" /\ kvt[1].op = "set"
    /\ kvt[2].at = "apply" /\ kvt[2].op = "set" /\ kvt[2].pos = 0
    /\ kvt[1].key = kvt[2].key
    /\ ctable[kvt[2].hv] # <<>>

\* C26: every read of a stored value's bytes on behalf of a GET, the copy
\* into the response buffer included, happens while the key's bucket mutex is
\* held, and so never goes through storage a concurrent SET has freed.
C26_ValueReadUnderMutex ==
    \A t \in Threads :
        /\ kvt[t].at = "copy" => locks[kvt[t].hv] = t
        /\ ~kvt[t].dangling

\* ---------------------------------------------------------------------
\* fd_reader on one connection whose bytes arrive in arbitrary pieces
\* ---------------------------------------------------------------------

\* read(fd, rd_buffer + rx_bytes, kBufferSize - rx_bytes) on the non-blocking
\* descriptor: it takes what the socket holds, up to the room left; with
\* nothing to take the result is not positive and read_from_socket is -1
read_from_socket(r, sk) ==
    LET n == MinOf(Len(sk), kBufferSize - r.rx_bytes) IN
    IF n <= 0 THEN [ret |-> -1, rd |-> r, sock |-> sk]
    ELSE [ret |-> 0,
          rd |-> [r EXCEPT
                    !.rd_buffer =
                        [i \in 0..(kBufferSize - 1) |->
                            IF i >= r.rx_bytes /\ i < r.rx_bytes + n
                            THEN sk[i - r.rx_bytes + 1]
                            ELSE r.rd_buffer[i]],
                    !.rx_bytes = r.rx_bytes + n],
          sock |-> SubSeq(sk, n + 1, Len(sk))]

\* memchr(rd_buffer + from, ch, n): the offset of the first ch, -1 for NULL
RECURSIVE memchr(_, _, _, _)
memchr(buf, from, n, ch) ==
    IF n = 0 THEN -1
    ELSE IF buf[from] = ch THEN from
    ELSE memchr(buf, from + 1, n - 1, ch)

\* memcpy(rd_buffer + dst, rd_buffer + src, n) copying from the low
\* addresses up, and from the high addresses down. The two agree unless the
\* regions overlap, where the C library leaves the result undefined.
RECURSIVE CopyUp(_, _, _, _, _)
CopyUp(buf, dst, src, i, n) ==
    IF i >= n THEN buf
    ELSE CopyUp([buf EXCEPT ![dst + i] = buf[src + i]], dst, src, i + 1, n)
RECURSIVE CopyDown(_, _, _, _)
CopyDown(buf, dst, src, i) ==
    IF i < 0 THEN buf
    ELSE CopyDown([buf EXCEPT ![dst + i] = buf[src + i]], dst, src, i - 1)
CopyOrders == {"up", "down"}
memcpy(buf, dst, src, n, order) ==
    IF order = "up" THEN CopyUp(buf, dst, src, 0, n)
    ELSE CopyDown(buf, dst, src, n - 1)

\* fd_reader::read_packet('\n') on reader r with sk unread in the socket; the
\* connection stays open, so a read without data leaves errno at EAGAIN
fd_read_packet(r, sk, order) ==
    LET first == r.cur_pos >= kBufferSize \/ r.rx_bytes = 0
        r0 == IF first THEN [r EXCEPT !.cur_pos = 0] ELSE r
        a == IF first THEN read_from_socket(r0, sk)
             ELSE [ret |-> 0, rd |-> r0, sock |-> sk]
        end1 == memchr(a.rd.rd_buffer, a.rd.cur_pos, a.rd.rx_bytes, "\n")
        moved == [a.rd EXCEPT
                    !.rd_buffer = memcpy(a.rd.rd_buffer, 0, a.rd.cur_pos,
                                         a.rd.rx_bytes, order),
                    !.cur_pos = 0]
        b == read_from_socket(moved, a.sock)
        c == IF end1 = -1 THEN b ELSE a
        end2 == memchr(c.rd.rd_buffer, c.rd.cur_pos, c.rd.rx_bytes, "\n")
        len == end2 - c.rd.cur_pos + 1
    IN
    IF a.ret < 0
    THEN [rd |-> [a.rd EXCEPT !.ret = 0], sock |-> a.sock]
    ELSE IF end1 = -1 /\ a.rd.rx_bytes > kMaxCmdLen
    THEN [rd |-> [a.rd EXCEPT !.aborted = TRUE], sock |-> a.sock]
    ELSE IF end1 = -1 /\ b.ret < 0
    THEN [rd |-> [b.rd EXCEPT !.ret = 0], sock |-> b.sock]
    ELSE IF end2 = -1
    THEN [rd |-> [c.rd EXCEPT !.ret = 0], sock |-> c.sock]
    ELSE [rd |-> [c.rd EXCEPT !.packet = c.rd.cur_pos,
                              !.cur_pos = c.rd.cur_pos + len,
                              !.rx_bytes = c.rd.rx_bytes - len,
                              !.ret = len],
          sock |-> c.sock]

\* the len bytes at reader.packet after a call that returned len
PacketBytes(r) == [i \in 1..r.ret |-> r.rd_buffer[r.packet + i - 1]]

\* the client's next bytes reach the socket, any number of them at a time
RdSend ==
    /\ rstream.todo # <<>>
    /\ \E n \in 1..Len(rstream.todo) :
        rstream' = [rstream EXCEPT
                      !.sock = @ \o SubSeq(rstream.todo, 1, n),
                      !.todo = SubSeq(@, n + 1, Len(@))]
    /\ UNCHANGED <<rtVars, kvVars, netVars, kvcVars, rbv, reader, rpackets, writer>>

\* one call of read_packet
RdCall ==
    /\ rstream.lines # <<>>
    /\ ~reader.aborted
    /\ \E order \in CopyOrders :
        LET r == fd_read_packet(reader, rstream.sock, order) IN
        /\ reader' = r.rd
        /\ rstream' = [rstream EXCEPT !.sock = r.sock]
        /\ rpackets' = IF r.rd.ret > 0 /\ ~r.rd.aborted
                       THEN Append(rpackets, PacketBytes(r.rd))
                       ELSE rpackets
    /\ UNCHANGED <<rtVars, kvVars, netVars, kvcVars, rbv, writer>>

InitReader ==
    /\ InitWith({}, {FALSE}, {100}, {0}, 0, PlainWorkload)
    /\ InitKv({"orthrus"})
    /\ InitNet
    /\ InitKvc
    /\ reader = NoReader
    /\ \E lines \in Streams : rstream = StreamOf(lines)
    /\ rpackets = <<>>
    /\ writer = NoWriter
    /\ rbv = RbvStart(FALSE)
NextReader ==
    \/ RdSend
    \/ RdCall
SpecReader == InitReader /\ [][NextReader]_vars

\* ---------------------------------------------------------------------
\* write_all on a descriptor that accepts any part of what it is offered
\* ---------------------------------------------------------------------

\* the buffers run() hands to write_all
WrBufs == {kRetVals[k] : k \in DOMAIN kRetVals}

\* a loop that offers buf again from its start, for comparison
WriteAt_from_start(buf, written, ret) == SubSeq(buf, 1, ret)
\* the ret bytes write(fd, buf + written, len - written) takes
WriteAt(buf, written, ret) == SubSeq(buf, written + 1, written + ret)

\* write_all(fd, buf, len) is entered: written = 0
WrCall ==
    /\ writer.pc \in {"idle", "returned"}
    /\ writer.calls < MaxWrites
    /\ \E buf \in WrBufs :
        writer' = [writer EXCEPT !.pc = "loop", !.buf = buf,
                                 !.len = Len(buf), !.written = 0,
                                 !.before = writer.fd, !.calls = @ + 1,
                                 !.short = FALSE]
    /\ UNCHANGED <<rtVars, kvVars, netVars, kvcVars, rbv, reader, rstream, rpackets>>

\* one turn of the loop: write() accepts 1..len - written bytes, or fails (the
\* descriptor is non-blocking) and assert(ret > 0) ends the process
WrWrite ==
    /\ writer.pc = "loop"
    /\ writer.written < writer.len
    /\ \E ret \in {-1} \cup (1..(writer.len - writer.written)) :
        writer' =
            IF ret > 0
            THEN [writer EXCEPT
                    !.fd = @ \o WriteAt(writer.buf, writer.written, ret),
                    !.written = @ + ret,
                    !.short = @ \/ ret < writer.len - writer.written]
            ELSE [writer EXCEPT !.pc = "abort"]
    /\ UNCHANGED <<rtVars, kvVars, netVars, kvcVars, rbv, reader, rstream, rpackets>>

\* written < len is false: write_all returns
WrReturn ==
    /\ writer.pc = "loop"
    /\ writer.written >= writer.len
    /\ writer' = [writer EXCEPT !.pc = "returned"]
    /\ UNCHANGED <<rtVars, kvVars, netVars, kvcVars, rbv, reader, rstream, rpackets>>

InitWriter ==
    /\ InitWith({}, {FALSE}, {100}, {0}, 0, PlainWorkload)
    /\ InitKv({"orthrus"})
    /\ InitNet
    /\ InitKvc
    /\ InitIo
NextWriter ==
    \/ WrCall
    \/ WrWrite
    \/ WrReturn
SpecWriter == InitWriter /\ [][NextWriter]_vars

\* ---------------------------------------------------------------------
\* RBV: one primary group, its replica and two clients (rbv/primary.cpp,
\* rbv/replica.cpp). A request is known by the number id it was sent with;
\* the response the primary computes for it carries the same number.
\* ---------------------------------------------------------------------

\* faulty variant: the newest pending response is taken
TakePending_newest(pending) ==
    [item |-> pending[Len(pending)],
     rest |-> SubSeq(pending, 1, Len(pending) - 1)]

\* pending_responses.front() and pop_front()
TakePending(pending) == [item |-> Head(pending), rest |-> Tail(pending)]

\* fd_worker::run of the primary on one packet of connection c
PrimaryPacket(s, c, pkt) ==
    IF s.sync_validation /\ s.shutdown_requested
    THEN s
    ELSE IF pkt.quit
    THEN IF ~s.sync_validation
         THEN [s EXCEPT !.wire = Append(@, [kind |-> "quit", id |-> pkt.id,
                                            sync |-> FALSE]),
                        !.forwarded = Append(@, pkt.id),
                        !.pc = "quit_wait"]
         ELSE [s EXCEPT !.wire = Append(@, [kind |-> "quit", id |-> pkt.id,
                                            sync |-> TRUE]),
                        !.forwarded = Append(@, pkt.id),
                        !.pending_responses =
                            Append(@, [client_fd |-> -1, response |-> pkt.id,
                                       is_quit |-> TRUE]),
                        !.shutdown_requested = TRUE]
    ELSE LET sent1 == [s EXCEPT
                         !.wire = @ \o <<[kind |-> "header", id |-> pkt.id,
                                          sync |-> s.sync_validation],
                                         [kind |-> "packet", id |-> pkt.id,
                                          sync |-> s.sync_validation]>>,
                         !.forwarded = Append(@, pkt.id)]
         IN
         IF s.sync_validation
         THEN [sent1 EXCEPT !.pending_responses =
                              Append(@, [client_fd |-> c, response |-> pkt.id,
                                         is_quit |-> FALSE])]
         ELSE [sent1 EXCEPT !.out[c] = Append(@, pkt.id)]

\* the loop of run(): every buffered packet of c in turn, until run returns
RECURSIVE PrimaryRun(_, _)
PrimaryRun(s, c) ==
    IF s.inbox[c] = <<>> \/ s.pc # "epoll" THEN s
    ELSE PrimaryRun(PrimaryPacket([s EXCEPT !.inbox[c] = Tail(@)], c,
                                  Head(s.inbox[c])), c)

\* the loop over the replica's ACK lines: each one takes the front of
\* pending_responses and writes it if its worker is still there
RECURSIVE PrimaryAcks(_)
PrimaryAcks(s) ==
    IF s.acks = <<>> \/ s.pc # "epoll" THEN s
    ELSE LET ack == Head(s.acks)
             s1 == [s EXCEPT !.acks = Tail(@)]
             t == TakePending(s.pending_responses)
             s2 == [s1 EXCEPT !.pending_responses = t.rest,
                              !.released = Append(@, [id |-> t.item.response,
                                                      ack |-> ack])]
         IN
         IF s.pending_responses = <<>> THEN PrimaryAcks(s1)
         ELSE IF t.item.is_quit THEN [s2 EXCEPT !.pc = "returned"]
         ELSE IF t.item.client_fd \in s.workers
         THEN PrimaryAcks([s2 EXCEPT !.out[t.item.client_fd] =
                                         Append(@, t.item.response)])
         ELSE PrimaryAcks(s2)

\* a client sends one more request line, a command or quit
RbvSend(c) ==
    /\ rbv.nsent < MaxRbvReqs
    /\ c \in rbv.workers
    /\ \E quit \in BOOLEAN :
        rbv' = [rbv EXCEPT !.nsent = @ + 1,
                           !.inbox[c] = Append(@, [id |-> rbv.nsent + 1,
                                                   quit |-> quit])]
    /\ UNCHANGED <<rtVars, kvVars, netVars, kvcVars, ioVars>>

\* Start: a client socket is readable, its worker runs
RbvRun(c) ==
    /\ rbv.pc = "epoll"
    /\ c \in rbv.workers
    /\ rbv.inbox[c] # <<>>
    /\ rbv' = PrimaryRun(rbv, c)
    /\ UNCHANGED <<rtVars, kvVars, netVars, kvcVars, ioVars>>

\* Start, synchronous: the replica's socket is readable
RbvAcks ==
    /\ rbv.pc = "epoll"
    /\ rbv.sync_validation
    /\ rbv.acks # <<>>
    /\ rbv' = PrimaryAcks(rbv)
    /\ UNCHANGED <<rtVars, kvVars, netVars, kvcVars, ioVars>>

\* run(), asynchronous quit: the read of the replica's answer returns
RbvQuitAck ==
    /\ rbv.pc = "quit_wait"
    /\ rbv.acks # <<>>
    /\ rbv' = [rbv EXCEPT !.acks = Tail(@), !.pc = "returned"]
    /\ UNCHANGED <<rtVars, kvVars, netVars, kvcVars, ioVars>>

\* Start: a client has hung up with nothing left to read: close(fd) and
\* workers.erase(fd)
RbvHup(c) ==
    /\ rbv.pc = "epoll"
    /\ c \in rbv.workers
    /\ rbv.inbox[c] = <<>>
    /\ rbv' = [rbv EXCEPT !.workers = @ \ {c}]
    /\ UNCHANGED <<rtVars, kvVars, netVars, kvcVars, ioVars>>

\* the replica's run() on the next line it has received
RbvReplica ==
    /\ rbv.wire # <<>>
    /\ ~rbv.replica.returned
    /\ LET line == Head(rbv.wire)
           r == rbv.replica
           s == [rbv EXCEPT !.wire = Tail(@)]
       IN
       rbv' =
         IF ~r.mode_set /\ line.kind = "mode"
         THEN [s EXCEPT !.replica.mode_set = TRUE,
                        !.replica.sync_mode = line.sync]
         ELSE IF line.kind = "quit"
         THEN [s EXCEPT !.replica.mode_set = TRUE,
                        !.replica.returned = TRUE,
                        !.acks = Append(@, line.id)]
         ELSE IF r.t_start = 0
         THEN [s EXCEPT !.replica.mode_set = TRUE, !.replica.t_start = 1]
         ELSE [s EXCEPT !.replica.mode_set = TRUE, !.replica.t_start = 0,
                        !.acks = IF r.sync_mode THEN Append(@, line.id)
                                 ELSE @]
    /\ UNCHANGED <<rtVars, kvVars, netVars, kvcVars, ioVars>>

InitRbv ==
    /\ InitWith({}, {FALSE}, {100}, {0}, 0, PlainWorkload)
    /\ InitKv({"orthrus"})
    /\ InitNet
    /\ InitKvc
    /\ reader = NoReader
    /\ rstream = StreamOf(<<>>)
    /\ rpackets = <<>>
    /\ writer = NoWriter
    /\ \E sync_validation \in BOOLEAN : rbv = RbvStart(sync_validation)
NextRbv ==
    \/ \E c \in Conns : RbvSend(c) \/ RbvRun(c) \/ RbvHup(c)
    \/ RbvAcks
    \/ RbvQuitAck
    \/ RbvReplica
SpecRbv == InitRbv /\ [][NextRbv]_vars

\* C27: a SET whose VAL_LEN value bytes hold an LF is handled as a single
\* SET that stores exactly those bytes: the packets run() takes are the lines
\* as sent, one response each, and after the line's packet the table holds
\* the value under the key.
C27_LfInValueIsOneSet ==
    \A c \in Conns :
        /\ Len(dispatched[c]) <= Len(sent[c])
        /\ \A i \in 1..Len(dispatched[c]) : dispatched[c][i] = sent[c][i]
        /\ (srv_last.conn = c /\ srv_last.nr # 0
               /\ sent[c][Len(dispatched[c])] = LineSetLf) =>
              /\ srv_last.resp \in {kRetVals.kCreated, kRetVals.kStored}
              /\ HashmapGet(table, <<"a", "b", "c", "d">>) = ValLf

\* C28: read_packet exposes the LF-terminated requests of the stream one per
\* call, in arrival order, each once and with exactly its bytes, however the
\* stream is split across socket reads; it returns 0 only when no complete
\* request is buffered, so once every byte was read all requests were exposed.
C28_PacketsAreTheRequests ==
    /\ ~reader.aborted
    /\ Len(rpackets) <= Len(rstream.lines)
    /\ \A i \in 1..Len(rpackets) : rpackets[i] = rstream.lines[i]
    /\ reader.ret = 0 =>
          /\ memchr(reader.rd_buffer, reader.cur_pos, reader.rx_bytes,
                    "\n") = -1
          /\ (rstream.todo = <<>> /\ rstream.sock = <<>>) =>
                rpackets = rstream.lines

\* C29: write_all returns only after all len bytes were written in order;
\* after a write that accepts fewer bytes than remain it goes on from the
\* first unwritten byte, so the peer never misses or gets twice a byte.
C29_WriteAllWritesAll ==
    /\ writer.pc \in {"loop", "returned"} =>
          writer.fd = writer.before \o SubSeq(writer.buf, 1, writer.written)
    /\ writer.pc = "returned" => writer.fd = writer.before \o writer.buf
C29_Witness ==
    /\ writer.pc = "returned"
    /\ writer.short
    /\ writer.calls = 2

\* positions of a validator inside validate_one, from the dequeue of a frame
\* to the fetch_sub that ends the call
InValidateOne(t) ==
    val_pc[t] \in {"validate_one", "gate_load", "gate_wait", "gate_cas",
                   "gate_fetch_add", "validate", "close", "reclaim",
                   "reclaim_notify", "reclaim_count", "reclaim_in_use",
                   "reclaim_cmp", "reclaim_free", "gate_sub"}
\* the asynchronous gate with a cap
AsyncGate == ~sync_validate /\ max_validation_core # 0
\* a validator takes its frame to the gate while the count is at the cap
ArrivesAtFullGate(t) ==
    /\ val_pc[t] = "gate_fetch_add"
    /\ val_pc'[t] # "gate_fetch_add"
    /\ n_validation_core >= max_validation_core

\* C30: asynchronous, with a nonzero cap: no validator ever waits at the gate;
\* a frame that comes to the gate while the count is at or above the cap
\* goes to reclaim_log and is never validated; and n_validation_core is 0
\* whenever no validator is inside validate_one.
C30_AsyncGateNeverBlocks ==
    [][AsyncGate =>
         /\ \A t \in Threads :
               /\ val_pc'[t] \notin {"gate_load", "gate_wait", "gate_cas"}
               /\ ArrivesAtFullGate(t) =>
                     /\ val_pc'[t] = "reclaim"
                     /\ vl'[t].path = "skip"
                     /\ vl'[t].log = vl[t].log
               /\ vl[t].path = "skip" =>
                     val_pc'[t] \notin {"validate", "close"}
         /\ (\A t \in Threads : ~InValidateOne(t)') => n_validation_core' = 0]_vars
\* C30 witness: both validators are done, one frame was validated and the
\* other was turned away by the full gate, and the counter is back at 0
C30_Witness ==
    /\ AsyncGate
    /\ \A t \in Threads : ~InValidateOne(t)
    /\ n_validation_core = 0
    /\ \E t \in Threads : stats[t].validated = 1 /\ stats[t].skipped = 0
    /\ \E t \in Threads : stats[t].validated = 0 /\ stats[t].skipped = 1
                          /\ stats[t].reclaimed = 1

\* C31: once an application thread has set its validator's stop flag, the
\* validator thread exits and the join of unregister_queue returns; the
\* validator does not stay in the spin on its empty ring.
C31_StopEndsValidator ==
    \A t \in Threads :
        /\ stop_validation[t] ~> val_pc[t] = "exited"
        /\ stop_validation[t] ~> app_pc[t] = "done"
\* C31 witness: every thread has joined its validator; one validator has
\* validated a frame, another never saw anything but its empty ring
C31_Witness ==
    /\ \A t \in Threads : stop_validation[t] /\ app_pc[t] = "done"
                          /\ val_pc[t] = "exited"
    /\ \E t \in Threads : stats[t].validated = 1
    /\ \E t \in Threads : stats[t].committed = 0

\* the requests of the first n entries of a sequence of records with id
Ids(seq) == [i \in 1..Len(seq) |-> seq[i].id]
IsPrefix(a, b) == Len(a) <= Len(b) /\ \A i \in 1..Len(a) : a[i] = b[i]

\* C32: RBV primary, synchronous: a response is written to a client only
\* once the replica's ACK for its request has been received, and the ACKs
\* release the pending responses in the order the requests were forwarded.
C32_ResponseAfterItsAck ==
    rbv.sync_validation =>
        /\ \A i \in 1..Len(rbv.released) :
              rbv.released[i].ack = rbv.released[i].id
        /\ IsPrefix(Ids(rbv.released), rbv.forwarded)
        /\ \A c \in Conns : \A k \in 1..Len(rbv.out[c]) :
              \E i \in 1..Len(rbv.released) :
                  rbv.released[i].id = rbv.out[c][k]
\* C32 witness: three requests of two clients were forwarded and all three
\* responses were released by their ACKs, both clients got one
C32_Witness ==
    /\ rbv.sync_validation
    /\ Len(rbv.released) = 3
    /\ \A c \in Conns : rbv.out[c] # <<>>

\* the offset of a frame in its slab
SlabOffset(log) == MaskLow(log, MAX_LOG_BUFFER_SIZE)

\* C33: every frame ThreadLogAllocator::allocate hands out starts at a slab
\* offset between sizeof(LogBufferHead) and MAX_LOG_BUFFER_SIZE -
\* MIN_LOG_BUFFER_SIZE, so a frame of at most MIN_LOG_BUFFER_SIZE bytes ends
\* within its slab, and masking the frame pointer gives a slab the allocator
\* has handed to the frame's thread.
C33_FrameStartsWithinSlab ==
    \A log \in DOMAIN frame_info :
        /\ SlabOffset(log) >= SizeofLogBufferHead
        /\ SlabOffset(log) <= MAX_LOG_BUFFER_SIZE - MIN_LOG_BUFFER_SIZE
        /\ get_log_buffer_head(log) \in DOMAIN buffer_head
        /\ (log \in DOMAIN mem /\ mem[log].kind = "head"
              /\ mem[log].length <= MIN_LOG_BUFFER_SIZE) =>
             SlabOffset(log) + mem[log].length <= MAX_LOG_BUFFER_SIZE
\* C33 witness: a committed frame of MIN_LOG_BUFFER_SIZE bytes that starts at
\* the last offset allowed and ends at the slab's last byte
C33_Witness ==
    \E log \in DOMAIN frame_info :
        /\ SlabOffset(log) = MAX_LOG_BUFFER_SIZE - MIN_LOG_BUFFER_SIZE
        /\ log \in DOMAIN mem
        /\ mem[log].kind = "head"
        /\ mem[log].length = MIN_LOG_BUFFER_SIZE
        /\ frame_info[log].seq # 0


\* val_fn returns on the recorded arguments what app_fn returned on them
Agrees(f) == Apply(f.val_fn, f.args) = Apply(f.app_fn, f.args)

\* C34: a frame whose val_fn is deterministic and returns what app_fn
\* returned never aborts the process in validation: the comparison passes,
\* after the skip and the compare the reader's cursor stands exactly on the
\* tail commit_log wrote, and the tail's magic and length checks pass.
C34_AgreeingFrameNeverAborts ==
    \A t \in Active :
        LET log == vl[t].log
            f == FrameInfo(log)
        IN
        /\ (aborted /\ vl[t].path = "validator_assert") => ~Agrees(f)
        /\ vl[t].path # "tail_mismatch"
        /\ (val_pc[t] = "close" /\ ~aborted) =>
              /\ Agrees(f)
              /\ vl[t].cursor = log + mem[log].length - SizeofLogTail
              /\ Read(mem, vl[t].cursor).kind = "tail"
              /\ Read(mem, vl[t].cursor).magic = MAGIC
              /\ Read(mem, vl[t].cursor).length = mem[log].length

\* C34 witness: the second frame of a thread, run on argument 1 with the
\* same function on both sides, has passed the compare and waits in close
C34_Witness ==
    /\ ~aborted
    /\ val_pc[1] = "close"
    /\ stats[1].validated = 2
    /\ FrameInfo(vl[1].log).args = 1
    /\ FrameInfo(vl[1].log).app_fn = FrameInfo(vl[1].log).val_fn


\* the ring slots of thread t that hold a pointer to a frame of slab b
RingSlotsOf(t, b) ==
    {i \in tail_[t]..(head_[t] - 1) :
        get_log_buffer_head(buffer_[t][MaskLow(i, LOG_QUEUE_CAPACITY)]) = b}

\* the frames of slab b a validator can see and has not yet counted as
\* reclaimed: those in a ring and those a validator holds
VisibleFrames(b) ==
    UNION {{<<t, i>> : i \in RingSlotsOf(t, b)} : t \in Threads}
    \cup {<<t, -1>> : t \in {u \in Threads :
                                HoldsFrame(u)
                                /\ get_log_buffer_head(vl[u].log) = b}}

\* C35: for every slab nr_reclaimed <= nr_logs in every reachable state: a
\* frame is counted in nr_logs before its pointer is visible in the ring, so
\* the frames reclaimed and the frames still visible to a validator together
\* never exceed the slab's count of logs.
C35_ReclaimedNeverExceedsLogs ==
    \A b \in DOMAIN buffer_head :
        /\ buffer_head[b].nr_reclaimed <= buffer_head[b].nr_logs
        /\ buffer_head[b].nr_reclaimed + Cardinality(VisibleFrames(b))
              <= buffer_head[b].nr_logs

\* C35 witness: a slab with three logs counted, one of them reclaimed, one in
\* the validator's hands and one still in the ring
C35_Witness ==
    \E b \in DOMAIN buffer_head :
        /\ buffer_head[b].nr_logs = 3
        /\ buffer_head[b].nr_reclaimed = 1
        /\ Cardinality(VisibleFrames(b)) = 2
        /\ RingSlotsOf(1, b) # {}


\* the ticket the frame in the validator's hands points to is the ticket of
\* a run2 call that has not returned
TicketAlive(t) ==
    LET tk == mem[vl[t].log].validation_ticket IN
    tk # nullptr => ticket[tk.t].id = tk.id

\* C36 (as claimed): in synchronous mode the validator touches a frame's
\* validation ticket, by the store of 1 or by notify_one, only while the
\* run2 call that owns the ticket on its stack has not returned.
C36_NoTicketAccessAfterReturn ==
    sync_validate =>
        \A t \in Threads :
            /\ val_pc[t] \in {"reclaim", "reclaim_notify"} => TicketAlive(t)
            /\ ~stats[t].stale_ticket

\* the part of C36 that holds: the store of 1 always finds the owner waiting
C36_StoreFindsOwner ==
    sync_validate =>
        \A t \in Threads : val_pc[t] = "reclaim" => TicketAlive(t)


\* C37: in synchronous mode the ring of a thread never holds more than one
\* frame pointer: run2 waits for its frame's ticket before it can commit
\* another, so log_enqueue finds the ring empty and push never returns false.
C37_SyncRingHoldsOneFrame ==
    sync_validate =>
        \A t \in Threads :
            /\ RingSize(t) <= 1
            /\ app_pc[t] = "enqueue" => RingSize(t) = 0
            /\ push_ret[t]

\* C37 witness: in synchronous mode the third call of a thread has pushed its
\* frame, which is the only one in the ring, and waits for its ticket
C37_Witness ==
    /\ sync_validate
    /\ ncalls[1] = 3
    /\ app_pc[1] = "wait_ticket"
    /\ RingSize(1) = 1
    /\ push_ret[1]


\* the chain positions of the entries for key k in table tbl
EntriesOf(tbl, k) ==
    {i \in 1..Len(tbl[BucketOf(k)]) : tbl[BucketOf(k)][i].key = k}

\* the value table tbl holds for key k: the bytes behind the first entry's
\* val_ptr in the heap cl, NoVal when the key is absent
ValueOf(tbl, cl, k) ==
    LET chain == tbl[BucketOf(k)]
        i == FindFrom(chain, 1, k)
    IN IF i = 0 THEN NoVal ELSE Read(cl, chain[i].val_ptr)

\* thread t's SET changes the table in this step
SetApplies(t) ==
    /\ kvt[t].op = "set"
    /\ kvt[t].at = "apply"
    /\ kvt'[t].at = "unlock"

\* C38: group threads that SET the same absent key at once are served one
\* after the other in the order they take the bucket's mutex: the SET that
\* finds the key absent answers CREATED and every other one STORED, the key
\* has a single entry afterwards, and the entry holds the value of the SET
\* that took the mutex last (a stored value changes only in the step of the
\* SET that holds the mutex, to that SET's value).
C38_ConcurrentSetsSerialize ==
    [][/\ \A t \in Threads :
             SetApplies(t) =>
                 /\ locks[kvt[t].hv] = t
                 /\ kvt'[t].ret = IF EntriesOf(ctable, kvt[t].key) = {}
                                  THEN "kCreated" ELSE "kStored"
                 /\ Cardinality(EntriesOf(ctable', kvt[t].key)) = 1
                 /\ ValueOf(ctable', cells', kvt[t].key) = kvt[t].val
       /\ \A k \in Keys :
             (/\ ValueOf(ctable', cells', k) # ValueOf(ctable, cells, k)
              /\ ValueOf(ctable', cells', k) # NoVal) =>
                 \E t \in Threads :
                     /\ SetApplies(t)
                     /\ kvt[t].key = k
                     /\ locks[BucketOf(k)] = t
      ]_vars

\* C38 witness: the only two calls so far are SETs of the same key with
\* different values; thread 1 was answered CREATED, thread 2, which took the
\* mutex after it, STORED, and the key's single entry holds thread 2's value
C38_Witness ==
    /\ kvc_ops = 2
    /\ kvt[1].op = "set" /\ kvt[1].at = "done" /\ kvt[1].ret = "kCreated"
    /\ kvt[2].op = "set" /\ kvt[2].at = "unlock" /\ kvt[2].ret = "kStored"
    /\ kvt[1].key = kvt[2].key
    /\ kvt[1].val # kvt[2].val
    /\ Cardinality(EntriesOf(ctable, kvt[2].key)) = 1
    /\ ValueOf(ctable, cells, kvt[2].key) = kvt[2].val


\* the positions of slab b on the free list fb
FreeListSlots(fb, b) == {i \in 1..Len(fb) : fb[i] = b}
OnFreeList(b) == FreeListSlots(free_buffers, b)

\* slab b has been acquired and not released since
HeldIn(h, fb, b) == b \in DOMAIN h /\ FreeListSlots(fb, b) = {}
Held(b) == HeldIn(buffer_head, free_buffers, b)

\* the producers that own slab b: they keep a cursor into it or are writing
\* a frame in it
OwnersIn(bufs, pc, cur, b) ==
    {t \in Threads :
        \/ \E i \in 1..Len(bufs[t]) : InSlab(b, bufs[t][i])
        \/ /\ pc[t] \in {"run_app", "commit", "commit_cursor"}
           /\ InSlab(b, cur[t].head)}
Owners(b) == OwnersIn(buffers, app_pc, current_log, b)

\* thread t's allocate takes a slab from allocate_log_buffer in this step
Acquires(t) == Run2NewLog(t) /\ acquired' = acquired + 1

\* C39: no slab is on the free list more than once at a time and no slab is
\* owned by two producers at once; a slab on the free list has no owner, the
\* slab allocate_log_buffer returns is not held, and only a held slab is
\* released: between an acquisition and the matching release
\* allocate_log_buffer does not return the slab again.
C39_SlabHeldOnce ==
    /\ [](\A b \in DOMAIN buffer_head :
            /\ Cardinality(OnFreeList(b)) <= 1
            /\ Cardinality(Owners(b)) <= 1
            /\ OnFreeList(b) # {} => Owners(b) = {})
    /\ [][/\ \A t \in Threads :
               Acquires(t) =>
                   LET b == get_log_buffer_head(current_log'[t].head) IN
                   /\ ~Held(b)
                   /\ Owners(b) = {}
                   /\ HeldIn(buffer_head', free_buffers', b)
                   /\ OwnersIn(buffers', app_pc', current_log', b) = {t}
          /\ \A t \in Threads :
               ReclaimFree(t) =>
                   LET b == get_log_buffer_head(vl[t].log) IN
                   /\ Held(b)
                   /\ ~HeldIn(buffer_head', free_buffers', b)
         ]_vars

\* C39 witness: thread 2 has just acquired, from the free list, the slab that
\* thread 1 put two frames in and thread 1's validator released
C39_Witness ==
    /\ acquired > nr_alloc
    /\ released = 1
    /\ stats[1].reclaimed = 2
    /\ stats[2].committed = 0
    /\ free_buffers = <<>>
    /\ app_pc[2] = "run_app"
    /\ buffer_head[get_log_buffer_head(current_log[2].head)].nr_logs = 0
    /\ Owners(get_log_buffer_head(current_log[2].head)) = {2}


\* the positions of an application thread inside run2
InRun2(t) ==
    app_pc[t] \in {"run_app", "commit", "commit_cursor", "enqueue",
                   "wait_ticket", "return"}

\* every active thread has joined its validator
AllJoined == \A t \in Threads : app_pc[t] \in {"off", "done"}

\* thread t has committed a frame that is not reclaimed yet
FramePending(t) == stats[t].committed > stats[t].reclaimed

====
